---- MODULE Spec2Model ----
(***************************************************************************)
(* Rule engine service (elite_mempool_system_final/services/rule_engine):  *)
(* the rule DSL (rule_dsl.rs), the rule executor (rule_executor.rs) and    *)
(* the batching pipeline driver (main.rs).                                 *)
(*                                                                         *)
(* Strings that the code inspects character by character (pattern match,   *)
(* prefix tests) are sequences of one-character strings.  JSON values      *)
(* (serde_json::Value) are records [t |-> "str" | "num" | "null", v |-> _].*)
(***************************************************************************)
EXTENDS Integers, Sequences, FiniteSets, TLC

\* ------------------------------------------------------------------ bounds
\* Config.max_concurrent_rules of the executor under check (default 100).
MaxConcurrentRules == 2

\* ------------------------------------------------------- strings and JSON
JStr(s) == [t |-> "str", v |-> s]
JNum(n) == [t |-> "num", v |-> n]
JNull == [t |-> "null", v |-> 0]

\* str::contains: needle occurs in haystack as a contiguous substring.
str_contains(haystack, needle) ==
    \E i \in 0..(Len(haystack) - Len(needle)) :
        SubSeq(haystack, i + 1, i + Len(needle)) = needle

\* str::starts_with
str_starts_with(haystack, needle) ==
    /\ Len(needle) <= Len(haystack)
    /\ SubSeq(haystack, 1, Len(needle)) = needle

\* str::ends_with
str_ends_with(haystack, needle) ==
    /\ Len(needle) <= Len(haystack)
    /\ SubSeq(haystack, Len(haystack) - Len(needle) + 1, Len(haystack)) = needle

\* serde_json::Value::Array, and PartialEq of serde_json::Value.
JArr(items) == [t |-> "arr", v |-> items]
json_eq(a, b) == a.t = b.t /\ a.v = b.v

\* Option<T>
None == [some |-> FALSE, v |-> <<>>]
Some(x) == [some |-> TRUE, v |-> x]

\* The patterns the catalog of this model uses.
PatOx == <<"0", "x">>
PatAnchoredOx == <<"^", "0", "x">>
PatInvalid == <<"(", ".", "*">>

\* regex::Regex::new: an unclosed group does not compile.
RegexNew(pattern) == pattern # PatInvalid

\* Regex::is_match for the compiled patterns of the model: "^0x" anchors the
\* literal "0x" at the start; any other pattern here is a plain literal.
RegexIsMatch(pattern, s) ==
    IF pattern = PatAnchoredOx THEN str_starts_with(s, PatOx)
    ELSE str_contains(s, pattern)

\* ----------------------------------------------------- numbers and letters
\* str::parse::<u128> / parse::<u64>: an optional "+" and at least one digit,
\* digits only.  The amounts of the transactions and templates of this model
\* are short, so the width limit of the target type is not reached by them.
IsDigit(c) == c \in {"0", "1", "2", "3", "4", "5", "6", "7", "8", "9"}
parse_ok(s) ==
    LET body == IF Len(s) > 0 /\ s[1] = "+" THEN Tail(s) ELSE s IN
    /\ Len(body) > 0
    /\ \A k \in 1..Len(body) : IsDigit(body[k])

\* Amounts are decimal strings in wei.  The model scales the units and the
\* floating point format down together: 1 ETH is WeiPerEth wei (1e18 in
\* rule_executor.rs:177), 1 gwei is WeiPerGwei wei (1e9 in :187, :240), and a
\* float has MantissaBits significant bits (53 for f64).  As in the code, the
\* 10 ETH and 100 ETH amounts are exactly representable but lie above the
\* range in which every integer is, and the gas price thresholds lie below it.
WeiPerEth == 1000
WeiPerGwei == 1
MantissaBits == 12

DigitValue(c) ==
    CASE c = "0" -> 0 [] c = "1" -> 1 [] c = "2" -> 2 [] c = "3" -> 3 [] c = "4" -> 4
      [] c = "5" -> 5 [] c = "6" -> 6 [] c = "7" -> 7 [] c = "8" -> 8 [] c = "9" -> 9

\* The value str::parse yields for a string that parses (parse_ok).
RECURSIVE digits_value(_)
digits_value(s) ==
    IF s = <<>> THEN 0
    ELSE 10 * digits_value(SubSeq(s, 1, Len(s) - 1)) + DigitValue(s[Len(s)])
parse_value(s) == digits_value(IF s[1] = "+" THEN Tail(s) ELSE s)

\* u128::MAX, scaled down with the amounts of the model (2^24 - 1), and
\* str::parse::<u128> with its width: a value above u128::MAX does not parse.
\* The numeric strings of the model have nine digits at most.
U128Max == 16777215
parse_u128_ok(s) == parse_ok(s) /\ Len(s) <= 9 /\ parse_value(s) <= U128Max

RECURSIVE pow2(_)
pow2(k) == IF k = 0 THEN 1 ELSE 2 * pow2(k - 1)

\* The spacing of the floats around n: 1 up to 2^MantissaBits, doubling with
\* every further binary digit of n.
RECURSIVE ulp(_, _)
ulp(n, u) == IF n < pow2(MantissaBits) * u THEN u ELSE ulp(n, 2 * u)

\* `n as f64`: the nearest float, ties to the even mantissa.
as_f64(n) ==
    LET u == ulp(n, 1)
        q == n \div u
        r == n % u IN
    IF 2 * r < u THEN q * u
    ELSE IF 2 * r > u THEN (q + 1) * u
    ELSE IF q % 2 = 0 THEN q * u ELSE (q + 1) * u

\* str::to_lowercase on the characters addresses are made of.
lower(c) ==
    CASE c = "A" -> "a" [] c = "B" -> "b" [] c = "C" -> "c" [] c = "D" -> "d"
      [] c = "E" -> "e" [] c = "F" -> "f" [] c = "X" -> "x" [] OTHER -> c
to_lowercase(s) == [k \in 1..Len(s) |-> lower(s[k])]

\* ------------------------------------------------------------ transactions
\* main.rs Transaction; raw is the empty JSON object in every transaction here,
\* block_number and transaction_index (never read by the engine) are None.
Tx(h, chain, to, value, gas_price, data) ==
    [hash |-> h, chain_id |-> chain, from |-> <<"0", "x", "a", "b", "c">>, to |-> to,
     value |-> value, gas |-> <<"2", "1">>, gas_price |-> gas_price, data |-> data,
     nonce |-> <<"1">>, timestamp |-> 7, status |-> <<"p">>]
TxA == Tx(<<"0", "x", "1">>, 1, <<"0", "x", "d">>, <<"1", "5">>, <<"2", "0">>, <<"0", "x">>)
TxB == Tx(<<"0", "x", "2">>, 137, <<"0", "x", "D">>, <<"0", "x", "f">>, <<"9">>, <<"0", "x", "a">>)
TxC == Tx(<<"0", "x", "3">>, 137, <<"0", "x", "e">>, <<"0">>, <<"-", "1">>, <<>>)
Transactions == {TxA, TxB, TxC}
\* The transactions the input topic carries.
TopicTransactions == {TxA, TxB}

\* ------------------------------------------------------------------- rules
CreateAlert(sev, tag) ==
    [type |-> "CreateAlert", severity |-> sev,
     title |-> <<[lit |-> "hv"]>>,
     description |-> <<[ph |-> "hash"], [ph |-> "chain_id"], [ph |-> "other"]>>,
     tags |-> <<tag>>, metadata |-> JNull]
SendNotification == [type |-> "SendNotification"]
StoreInDatabase == [type |-> "StoreInDatabase"]
CallWebhook == [type |-> "CallWebhook"]
UpdateWatchlist == [type |-> "UpdateWatchlist"]
CustomAction == [type |-> "Custom"]

ChainFilter(ids) == [type |-> "ChainFilter", chain_ids |-> ids]
PatternMatch(f, p, re) == [type |-> "PatternMatch", field |-> f, pattern |-> p, regex |-> re]
ValueComparison(f, op, value) ==
    [type |-> "ValueComparison", field |-> f, operator |-> op, value |-> value]
AddressMatch(f, addresses) == [type |-> "AddressMatch", field |-> f, addresses |-> addresses]
ContractCall(address, signature) ==
    [type |-> "ContractCall", contract_address |-> address, function_signature |-> signature]
GasAnalysis(min, max, threshold) ==
    [type |-> "GasAnalysis", min_gas_price |-> min, max_gas_price |-> max,
     gas_limit_threshold |-> threshold]
ValueThreshold(f, min, max) ==
    [type |-> "ValueThreshold", field |-> f, min_value |-> min, max_value |-> max]
TimeWindow(start, end) == [type |-> "TimeWindow", start_time |-> start, end_time |-> end]
MEVDetection == [type |-> "MEVDetection"]
CustomCondition == [type |-> "Custom"]

\* R1: no conditions; alert actions interleaved with a non-alert action.
R1 == [id |-> 1, enabled |-> TRUE, conditions |-> <<>>,
       actions |-> <<CreateAlert("High", "a"), SendNotification, CreateAlert("Low", "b")>>]
\* R2: scenario 4 of the specification; an invalid regex behind a chain filter.
R2 == [id |-> 2, enabled |-> TRUE,
       conditions |-> <<ChainFilter(<<137>>), PatternMatch("data", PatInvalid, TRUE)>>,
       actions |-> <<CreateAlert("Medium", "c")>>]
\* R3: disabled, would otherwise match everything.
R3 == [id |-> 3, enabled |-> FALSE, conditions |-> <<>>,
       actions |-> <<CreateAlert("Critical", "d"), StoreInDatabase>>]
\* R4: substring and regex conditions; only intent actions.
R4 == [id |-> 4, enabled |-> TRUE,
       conditions |-> <<PatternMatch("data", PatOx, FALSE), PatternMatch("data", PatAnchoredOx, TRUE),
                        ChainFilter(<<1, 137>>)>>,
       actions |-> <<StoreInDatabase, CallWebhook, UpdateWatchlist, CustomAction>>]
\* R5: matches chain 137 but carries a reserved condition last.
R5 == [id |-> 5, enabled |-> TRUE,
       conditions |-> <<ChainFilter(<<137>>), MEVDetection, CustomCondition>>,
       actions |-> <<CreateAlert("Low", "e")>>]
\* R6: matches chain 137, no actions.
R6 == [id |-> 6, enabled |-> TRUE,
       conditions |-> <<ChainFilter(<<137>>), PatternMatch("status", <<"p">>, FALSE)>>,
       actions |-> <<>>]

\* R7: matches chain 137 and alerts; also the row inserted into the store
\* while the service runs.
R7 == [id |-> 7, enabled |-> TRUE, conditions |-> <<ChainFilter(<<137>>)>>,
       actions |-> <<CreateAlert("Medium", "g")>>]

\* ------------------------------------------------------ condition evaluator
\* RuleCondition::get_field_value
get_field_value(transaction, field) ==
    CASE field = "hash" -> JStr(transaction.hash)
      [] field = "from" -> JStr(transaction.from)
      [] field = "to" -> JStr(transaction.to)
      [] field = "value" -> JStr(transaction.value)
      [] field = "gas" -> JStr(transaction.gas)
      [] field = "gas_price" -> JStr(transaction.gas_price)
      [] field = "data" -> JStr(transaction.data)
      [] field = "nonce" -> JStr(transaction.nonce)
      [] field = "chain_id" -> JNum(transaction.chain_id)
      [] field = "timestamp" -> JNum(transaction.timestamp)
      [] field = "status" -> JStr(transaction.status)
      [] OTHER -> JNull

\* RuleCondition::evaluate_pattern_match
evaluate_pattern_match(transaction, field, pattern, is_regex) ==
    LET field_value == get_field_value(transaction, field) IN
    IF field_value.t = "str"
    THEN IF is_regex
         THEN RegexNew(pattern) /\ RegexIsMatch(pattern, field_value.v)
         ELSE str_contains(field_value.v, pattern)
    ELSE FALSE

\* The closures passed to compare_numeric (rule_dsl.rs:210-220).
op_f64(operator, a, b) ==
    CASE operator = "GreaterThan" -> a > b
      [] operator = "LessThan" -> a < b
      [] operator = "GreaterThanOrEqual" -> a >= b
      [] operator = "LessThanOrEqual" -> a <= b

\* serde_json::Value::as_f64 of a number (an i64 here).
number_as_f64(n) == IF n < 0 THEN -as_f64(-n) ELSE as_f64(n)

\* RuleCondition::compare_numeric: as_f64 is Some for JSON numbers only; the
\* fallback needs two strings that parse as u128.
compare_numeric(a, b, operator) ==
    IF a.t = "num" /\ b.t = "num"
    THEN op_f64(operator, number_as_f64(a.v), number_as_f64(b.v))
    ELSE IF a.t = "str" /\ b.t = "str"
         THEN /\ parse_u128_ok(a.v) /\ parse_u128_ok(b.v)
              /\ op_f64(operator, as_f64(parse_value(a.v)), as_f64(parse_value(b.v)))
         ELSE FALSE

\* RuleCondition::evaluate_value_comparison
evaluate_value_comparison(transaction, field, operator, value) ==
    LET field_value == get_field_value(transaction, field) IN
    CASE operator = "Equal" -> json_eq(field_value, value)
      [] operator = "NotEqual" -> ~json_eq(field_value, value)
      [] operator \in {"GreaterThan", "LessThan", "GreaterThanOrEqual", "LessThanOrEqual"} ->
            compare_numeric(field_value, value, operator)
      [] operator = "Contains" ->
            field_value.t = "str" /\ value.t = "str" /\ str_contains(field_value.v, value.v)
      [] operator = "StartsWith" ->
            field_value.t = "str" /\ value.t = "str" /\ str_starts_with(field_value.v, value.v)
      [] operator = "EndsWith" ->
            field_value.t = "str" /\ value.t = "str" /\ str_ends_with(field_value.v, value.v)
      [] operator = "In" ->
            value.t = "arr" /\ \E k \in 1..Len(value.v) : json_eq(value.v[k], field_value)
      [] operator = "NotIn" ->
            value.t = "arr" => ~\E k \in 1..Len(value.v) : json_eq(value.v[k], field_value)

\* RuleCondition::evaluate_address_match
evaluate_address_match(transaction, field, addresses) ==
    LET field_value == get_field_value(transaction, field) IN
    /\ field_value.t = "str"
    /\ \E k \in 1..Len(addresses) : to_lowercase(addresses[k]) = to_lowercase(field_value.v)

\* evaluate_contract_call comparing the addresses as they are written.
evaluate_contract_call_exact(transaction, contract_address, function_signature) ==
    IF transaction.to # contract_address THEN FALSE
    ELSE IF Len(transaction.data) >= 10
         THEN SubSeq(transaction.data, 1, 10) = function_signature
         ELSE FALSE

\* RuleCondition::evaluate_contract_call
evaluate_contract_call(transaction, contract_address, function_signature) ==
    IF to_lowercase(transaction.to) # to_lowercase(contract_address) THEN FALSE
    ELSE IF Len(transaction.data) >= 10
         THEN SubSeq(transaction.data, 1, 10) = function_signature
         ELSE FALSE

\* RuleCondition::evaluate_gas_analysis: a bound that does not parse is
\* skipped, and so is the gas limit test when transaction.gas does not parse.
evaluate_gas_analysis(transaction, min_gas_price, max_gas_price, gas_limit_threshold) ==
    /\ parse_ok(transaction.gas_price)
    /\ (min_gas_price.some /\ parse_ok(min_gas_price.v)) =>
           parse_value(transaction.gas_price) >= parse_value(min_gas_price.v)
    /\ (max_gas_price.some /\ parse_ok(max_gas_price.v)) =>
           parse_value(transaction.gas_price) <= parse_value(max_gas_price.v)
    /\ (gas_limit_threshold.some /\ parse_ok(gas_limit_threshold.v)
           /\ parse_ok(transaction.gas)) =>
           parse_value(transaction.gas) >= parse_value(gas_limit_threshold.v)

\* evaluate_value_threshold with exclusive bounds.
evaluate_value_threshold_exclusive(transaction, field, min_value, max_value) ==
    LET field_value == get_field_value(transaction, field) IN
    IF field_value.t = "str" /\ parse_u128_ok(field_value.v)
    THEN /\ (min_value.some /\ parse_u128_ok(min_value.v)) =>
                parse_value(field_value.v) > parse_value(min_value.v)
         /\ (max_value.some /\ parse_u128_ok(max_value.v)) =>
                parse_value(field_value.v) < parse_value(max_value.v)
    ELSE FALSE

\* RuleCondition::evaluate_value_threshold: a bound that does not parse is
\* skipped.
evaluate_value_threshold(transaction, field, min_value, max_value) ==
    LET field_value == get_field_value(transaction, field) IN
    IF field_value.t = "str" /\ parse_u128_ok(field_value.v)
    THEN /\ (min_value.some /\ parse_u128_ok(min_value.v)) =>
                parse_value(field_value.v) >= parse_value(min_value.v)
         /\ (max_value.some /\ parse_u128_ok(max_value.v)) =>
                parse_value(field_value.v) <= parse_value(max_value.v)
    ELSE FALSE

\* RuleCondition::evaluate_time_window: the timestamps of the model are in
\* the range of DateTime, so from_timestamp is Some.
evaluate_time_window(transaction, start_time, end_time) ==
    /\ start_time.some => transaction.timestamp >= start_time.v
    /\ end_time.some => transaction.timestamp <= end_time.v

\* Whether evaluating the condition calls Regex::new (rule_dsl.rs:415).
compiles_regex(condition, transaction) ==
    /\ condition.type = "PatternMatch"
    /\ condition.regex
    /\ get_field_value(transaction, condition.field).t = "str"

\* evaluate with the reserved conditions answering true.
evaluate_reserved_true(condition, transaction) ==
    CASE condition.type = "ValueComparison" ->
            evaluate_value_comparison(transaction, condition.field, condition.operator,
                                      condition.value)
      [] condition.type = "AddressMatch" ->
            evaluate_address_match(transaction, condition.field, condition.addresses)
      [] condition.type = "ContractCall" ->
            evaluate_contract_call(transaction, condition.contract_address,
                                   condition.function_signature)
      [] condition.type = "GasAnalysis" ->
            evaluate_gas_analysis(transaction, condition.min_gas_price,
                                  condition.max_gas_price, condition.gas_limit_threshold)
      [] condition.type = "ValueThreshold" ->
            evaluate_value_threshold(transaction, condition.field, condition.min_value,
                                     condition.max_value)
      [] condition.type = "TimeWindow" ->
            evaluate_time_window(transaction, condition.start_time, condition.end_time)
      [] condition.type = "ChainFilter" ->
            \E k \in 1..Len(condition.chain_ids) : condition.chain_ids[k] = transaction.chain_id
      [] condition.type = "MEVDetection" -> TRUE
      [] condition.type = "PatternMatch" ->
            evaluate_pattern_match(transaction, condition.field, condition.pattern, condition.regex)
      [] condition.type = "Custom" -> TRUE

\* RuleCondition::evaluate
evaluate(condition, transaction) ==
    CASE condition.type = "ValueComparison" ->
            evaluate_value_comparison(transaction, condition.field, condition.operator,
                                      condition.value)
      [] condition.type = "AddressMatch" ->
            evaluate_address_match(transaction, condition.field, condition.addresses)
      [] condition.type = "ContractCall" ->
            evaluate_contract_call(transaction, condition.contract_address,
                                   condition.function_signature)
      [] condition.type = "GasAnalysis" ->
            evaluate_gas_analysis(transaction, condition.min_gas_price,
                                  condition.max_gas_price, condition.gas_limit_threshold)
      [] condition.type = "ValueThreshold" ->
            evaluate_value_threshold(transaction, condition.field, condition.min_value,
                                     condition.max_value)
      [] condition.type = "TimeWindow" ->
            evaluate_time_window(transaction, condition.start_time, condition.end_time)
      [] condition.type = "ChainFilter" ->
            \E k \in 1..Len(condition.chain_ids) : condition.chain_ids[k] = transaction.chain_id
      [] condition.type = "MEVDetection" -> FALSE
      [] condition.type = "PatternMatch" ->
            evaluate_pattern_match(transaction, condition.field, condition.pattern, condition.regex)
      [] condition.type = "Custom" -> FALSE

\* Iterator::all over the conditions from position i on: the result and the
\* positions whose closure ran, in the order they ran.  Every position is
\* visited and the conjunction taken afterwards.
RECURSIVE all_eager(_, _, _)
all_eager(conditions, transaction, i) ==
    IF i > Len(conditions) THEN [result |-> TRUE, evaluated |-> <<>>]
    ELSE LET rest == all_eager(conditions, transaction, i + 1) IN
         [result |-> evaluate(conditions[i], transaction) /\ rest.result,
          evaluated |-> <<i>> \o rest.evaluated]

\* Iterator::all as the standard library runs it: stops at the first false.
RECURSIVE all(_, _, _)
all(conditions, transaction, i) ==
    IF i > Len(conditions) THEN [result |-> TRUE, evaluated |-> <<>>]
    ELSE IF ~evaluate(conditions[i], transaction)
         THEN [result |-> FALSE, evaluated |-> <<i>>]
         ELSE LET rest == all(conditions, transaction, i + 1) IN
              [result |-> rest.result, evaluated |-> <<i>> \o rest.evaluated]

\* Iterator::any in place of Iterator::all.
RECURSIVE any_condition(_, _, _)
any_condition(conditions, transaction, i) ==
    IF i > Len(conditions) THEN [result |-> FALSE, evaluated |-> <<>>]
    ELSE IF evaluate(conditions[i], transaction)
         THEN [result |-> TRUE, evaluated |-> <<i>>]
         ELSE LET rest == any_condition(conditions, transaction, i + 1) IN
              [result |-> rest.result, evaluated |-> <<i>> \o rest.evaluated]

\* should_apply without the enabled test.
should_apply_ignoring_enabled(rule, transaction) == all(rule.conditions, transaction, 1)

\* should_apply with any() for all().
should_apply_any(rule, transaction) ==
    IF ~rule.enabled THEN [result |-> FALSE, evaluated |-> <<>>]
    ELSE any_condition(rule.conditions, transaction, 1)

\* should_apply evaluating every condition.
should_apply_eager(rule, transaction) ==
    IF ~rule.enabled THEN [result |-> FALSE, evaluated |-> <<>>]
    ELSE all_eager(rule.conditions, transaction, 1)

\* Rule::should_apply: the verdict together with the conditions it evaluated.
should_apply(rule, transaction) ==
    IF ~rule.enabled THEN [result |-> FALSE, evaluated |-> <<>>]
    ELSE all(rule.conditions, transaction, 1)

\* ------------------------------------------------------------ rule executor
\* One token of a template after RuleExecutor::interpolate_template: the ten
\* plain placeholders are replaced by the field, value_eth and gas_price_gwei
\* by the formatted quotient when the field parses, anything else is kept.
interpolate_token(tok, transaction) ==
    IF "ph" \notin DOMAIN tok THEN tok
    ELSE CASE tok.ph = "hash" -> [lit |-> transaction.hash]
           [] tok.ph = "from" -> [lit |-> transaction.from]
           [] tok.ph = "to" -> [lit |-> transaction.to]
           [] tok.ph = "value" -> [lit |-> transaction.value]
           [] tok.ph = "gas" -> [lit |-> transaction.gas]
           [] tok.ph = "gas_price" -> [lit |-> transaction.gas_price]
           [] tok.ph = "nonce" -> [lit |-> transaction.nonce]
           [] tok.ph = "chain_id" -> [lit |-> ToString(transaction.chain_id)]
           [] tok.ph = "timestamp" -> [lit |-> ToString(transaction.timestamp)]
           [] tok.ph = "status" -> [lit |-> transaction.status]
           [] tok.ph = "value_eth" ->
                IF parse_ok(transaction.value)
                THEN [fmt |-> "{:.6}", num |-> transaction.value, div |-> "1e18"] ELSE tok
           [] tok.ph = "gas_price_gwei" ->
                IF parse_ok(transaction.gas_price)
                THEN [fmt |-> "{:.2}", num |-> transaction.gas_price, div |-> "1e9"] ELSE tok
           [] OTHER -> tok

\* RuleExecutor::interpolate_template (always Ok)
interpolate_template(template, transaction) ==
    [k \in 1..Len(template) |-> interpolate_token(template[k], transaction)]

\* The alert a CreateAlert action materialises (rule_executor.rs:73-84).  The
\* fresh id and created_at are not carried: nothing reads them.
make_alert(rule, transaction, action) ==
    [rule_id |-> rule.id,
     transaction_hash |-> transaction.hash,
     chain_id |-> transaction.chain_id,
     severity |-> action.severity,
     title |-> interpolate_template(action.title, transaction),
     description |-> interpolate_template(action.description, transaction),
     metadata |-> action.metadata,
     tags |-> action.tags]

\* The loop of execute_single_rule from action i on: the alerts pushed and the
\* intents logged (log::debug!), both in the order of the actions.
RECURSIVE run_actions(_, _, _)
run_actions(rule, transaction, i) ==
    IF i > Len(rule.actions) THEN [alerts |-> <<>>, intents |-> <<>>]
    ELSE LET rest == run_actions(rule, transaction, i + 1)
             action == rule.actions[i] IN
         IF action.type = "CreateAlert"
         THEN [alerts |-> <<make_alert(rule, transaction, action)>> \o rest.alerts,
               intents |-> rest.intents]
         ELSE [alerts |-> rest.alerts,
               intents |-> <<[rule_id |-> rule.id, action |-> action.type]>> \o rest.intents]

\* execute_single_rule emitting the alerts in reverse order of the actions.
RECURSIVE reverse(_)
reverse(s) == IF s = <<>> THEN <<>> ELSE reverse(Tail(s)) \o <<Head(s)>>
execute_single_rule_reversed(rule, transaction) ==
    [alerts |-> reverse(run_actions(rule, transaction, 1).alerts),
     intents |-> run_actions(rule, transaction, 1).intents]

\* execute_single_rule pushing every alert twice.
execute_single_rule_twice(rule, transaction) ==
    [alerts |-> run_actions(rule, transaction, 1).alerts \o run_actions(rule, transaction, 1).alerts,
     intents |-> run_actions(rule, transaction, 1).intents]

\* RuleExecutor::execute_single_rule (always Ok)
execute_single_rule(rule, transaction) == run_actions(rule, transaction, 1)

\* ------------------------------------------------- risk score, MEV detection
\* RiskScorer::is_suspicious_address: the placeholder answers false.
is_suspicious_address(address) == FALSE

\* RiskScorer::calculate_risk_score, in tenths.  The quotients value / 1e18
\* and gas_price / 1e9 are compared through the converted amounts; the
\* division by the power of ten adds no rounding that changes a comparison.
calculate_risk_score(transaction) ==
    LET value_part ==
            IF parse_ok(transaction.value)
            THEN LET value == as_f64(parse_value(transaction.value)) IN
                 IF value > 100 * WeiPerEth THEN 3
                 ELSE IF value > 10 * WeiPerEth THEN 1 ELSE 0
            ELSE 0
        gas_part ==
            IF parse_ok(transaction.gas_price)
            THEN LET gas_price == as_f64(parse_value(transaction.gas_price)) IN
                 IF gas_price > 100 * WeiPerGwei THEN 2
                 ELSE IF gas_price > 50 * WeiPerGwei THEN 1 ELSE 0
            ELSE 0
        data_part ==
            IF transaction.data # <<>> /\ transaction.data # <<"0", "x">> THEN 1 ELSE 0
        from_part == IF is_suspicious_address(transaction.from) THEN 4 ELSE 0
        to_part == IF is_suspicious_address(transaction.to) THEN 4 ELSE 0
        score == value_part + gas_part + data_part + from_part + to_part IN
    IF score < 10 THEN score ELSE 10

\* The DEX routers of MEVDetector::is_dex_transaction (rule_executor.rs:269-274).
UniswapV2Router ==
    <<"0", "x", "7", "a", "2", "5", "0", "d", "5", "6", "3", "0", "b", "4",
      "c", "f", "5", "3", "9", "7", "3", "9", "d", "f", "2", "c", "5", "d",
      "a", "c", "b", "4", "c", "6", "5", "9", "f", "2", "4", "8", "8", "d">>
UniswapV3Router ==
    <<"0", "x", "e", "5", "9", "2", "4", "2", "7", "a", "0", "a", "e", "c",
      "e", "9", "2", "d", "e", "3", "e", "d", "e", "e", "1", "f", "1", "8",
      "e", "0", "1", "5", "7", "c", "0", "5", "8", "6", "1", "5", "6", "4">>
SushiSwapRouter ==
    <<"0", "x", "d", "9", "e", "1", "c", "e", "1", "7", "f", "2", "6", "4",
      "1", "f", "2", "4", "a", "e", "8", "3", "6", "3", "7", "a", "b", "6",
      "6", "a", "2", "c", "c", "a", "9", "c", "3", "7", "8", "b", "9", "f">>
OneInchRouter ==
    <<"0", "x", "1", "1", "1", "1", "1", "1", "1", "2", "5", "4", "f", "b",
      "6", "c", "4", "4", "b", "a", "c", "0", "b", "e", "d", "2", "8", "5",
      "4", "e", "7", "6", "f", "9", "0", "6", "4", "3", "0", "9", "7", "d">>
dex_addresses == <<UniswapV2Router, UniswapV3Router, SushiSwapRouter, OneInchRouter>>

\* is_dex_transaction comparing the address as it is written.
is_dex_transaction_exact(transaction) ==
    \E k \in 1..Len(dex_addresses) : dex_addresses[k] = transaction.to

\* MEVDetector::is_dex_transaction
is_dex_transaction(transaction) ==
    \E k \in 1..Len(dex_addresses) :
        to_lowercase(dex_addresses[k]) = to_lowercase(transaction.to)

\* MEVDetector::detect_mev: the patterns pushed, in order.
detect_mev(transaction) ==
    (IF parse_ok(transaction.gas_price)
        /\ as_f64(parse_value(transaction.gas_price)) > 200 * WeiPerGwei
     THEN <<[pattern |-> "HighGasPrice",
             gas_price_gwei |-> as_f64(parse_value(transaction.gas_price)) \div WeiPerGwei,
             threshold |-> 200]>>
     ELSE <<>>)
    \o (IF is_dex_transaction(transaction)
        THEN <<[pattern |-> "DEXInteraction", contract_address |-> transaction.to]>>
        ELSE <<>>)
    \o (IF Len(transaction.data) > 1000
        THEN <<[pattern |-> "ComplexContractCall", data_size |-> Len(transaction.data)]>>
        ELSE <<>>)

\* ---------------------------------------------------------------- state
\* Callers of RuleExecutor::execute_rules sharing one executor (&self): the
\* pipeline driver and a second concurrent caller.
Callers == {"driver", "other"}

\* The rule slices (&[Rule]) the callers pass.
RuleLists == {<<R1, R2, R3, R7>>, <<R5, R6>>, <<R4, R1>>}

VARIABLES
    permits,    \* RuleExecutor.semaphore: permits available
    calls,      \* per caller: the execute_rules call in flight or last returned
    tasks,      \* per caller: the spawned tasks, in the order of `handles`
    metrics     \* Metrics counters and gauges

\* A caller with no call made yet; transaction and rules are the arguments of
\* the latest call and are read only once a call has been made.
NoCall ==
    [pc |-> "idle", transaction |-> TxA, rules |-> <<>>, evaluated |-> <<>>,
     joined |-> 0, alerts |-> <<>>, errors |-> 0]

\* RuleExecutor::new
InitExecutor ==
    /\ permits = MaxConcurrentRules
    /\ calls = [c \in Callers |-> NoCall]
    /\ tasks = [c \in Callers |-> <<>>]

Pending(t) == t.st \in {"waiting", "running"}
Finished(t) == t.st \in {"ok", "panicked"}

\* The rules of the slice that get a task: rule.should_apply(transaction).
RECURSIVE spawn_from(_, _, _)
spawn_from(rules, transaction, i) ==
    IF i > Len(rules) THEN <<>>
    ELSE IF should_apply(rules[i], transaction).result
         THEN <<[rule |-> i, st |-> "waiting", late |-> FALSE,
                 out |-> [alerts |-> <<>>, intents |-> <<>>]]>>
              \o spawn_from(rules, transaction, i + 1)
         ELSE spawn_from(rules, transaction, i + 1)

\* execute_rules up to its first await: the spawn loop (rule_executor.rs:30-46).
\* With no handle to await the call returns Ok(vec![]) at once.
ExecuteRules(c, transaction, rules) ==
    /\ calls[c].pc \in {"idle", "returned"}
    /\ LET handles == spawn_from(rules, transaction, 1) IN
       /\ tasks' = [tasks EXCEPT ![c] = handles]
       /\ calls' = [calls EXCEPT ![c] =
            [pc |-> IF handles = <<>> THEN "returned" ELSE "joining",
             transaction |-> transaction, rules |-> rules,
             evaluated |-> [i \in 1..Len(rules) |-> should_apply(rules[i], transaction).evaluated],
             joined |-> 0, alerts |-> <<>>, errors |-> 0]]
    /\ UNCHANGED <<permits, metrics>>

\* The spawned task takes a permit without waiting for one to be free.
TaskAcquireNoWait(c, h) ==
    /\ h \in DOMAIN tasks[c]
    /\ tasks[c][h].st = "waiting"
    /\ permits' = permits - 1
    /\ tasks' = [tasks EXCEPT ![c][h].st = "running"]
    /\ UNCHANGED <<calls, metrics>>

\* The spawned task: semaphore_clone.acquire().await (rule_executor.rs:40).
\* A task joins the semaphore's queue when it is first polled, so the tasks
\* obtain permits in any order.
TaskAcquire(c, h) ==
    /\ h \in DOMAIN tasks[c]
    /\ tasks[c][h].st = "waiting"
    /\ permits > 0
    /\ permits' = permits - 1
    /\ tasks' = [tasks EXCEPT ![c][h].st = "running"]
    /\ UNCHANGED <<calls, metrics>>

\* A task that ends while another task holds a permit loses its alerts.
TaskCompleteContended(c, h) ==
    /\ h \in DOMAIN tasks[c]
    /\ tasks[c][h].st = "running"
    /\ permits' = permits + 1
    /\ tasks' = [tasks EXCEPT ![c][h].st = "ok",
                              ![c][h].out =
                                  IF permits + 1 < MaxConcurrentRules
                                  THEN [alerts |-> <<>>, intents |-> <<>>]
                                  ELSE execute_single_rule(calls[c].rules[tasks[c][h].rule],
                                                           calls[c].transaction)]
    /\ UNCHANGED <<calls, metrics>>

\* The spawned task: execute_single_rule returns; _permit is dropped at the
\* end of the async block (rule_executor.rs:41-42).
TaskComplete(c, h) ==
    /\ h \in DOMAIN tasks[c]
    /\ tasks[c][h].st = "running"
    /\ permits' = permits + 1
    /\ tasks' = [tasks EXCEPT ![c][h].st = "ok",
                              ![c][h].out = execute_single_rule(calls[c].rules[tasks[c][h].rule],
                                                                calls[c].transaction)]
    /\ UNCHANGED <<calls, metrics>>

\* The intents the loop has logged when it reaches action k.
intents_before(rule, transaction, k) ==
    run_actions([rule EXCEPT !.actions = SubSeq(rule.actions, 1, k - 1)], transaction, 1).intents

\* The task panics and the unwinding keeps the permit.
TaskPanicLeak(c, h) ==
    /\ h \in DOMAIN tasks[c]
    /\ tasks[c][h].st = "running"
    /\ \E k \in 1..Len(calls[c].rules[tasks[c][h].rule].actions) :
          calls[c].rules[tasks[c][h].rule].actions[k].type = "CreateAlert"
    /\ tasks' = [tasks EXCEPT ![c][h].st = "panicked"]
    /\ UNCHANGED <<permits, calls, metrics>>

\* The spawned task panics inside execute_single_rule: the calls that can
\* panic (Uuid::new_v4, Utc::now) are in the CreateAlert arm.  The unwinding
\* drops _permit; the alerts built so far are lost with the task.
TaskPanic(c, h) ==
    /\ h \in DOMAIN tasks[c]
    /\ tasks[c][h].st = "running"
    /\ \E k \in 1..Len(calls[c].rules[tasks[c][h].rule].actions) :
          /\ calls[c].rules[tasks[c][h].rule].actions[k].type = "CreateAlert"
          /\ tasks' = [tasks EXCEPT ![c][h].st = "panicked",
                                    ![c][h].out = [alerts |-> <<>>,
                                                   intents |-> intents_before(
                                                       calls[c].rules[tasks[c][h].rule],
                                                       calls[c].transaction, k)]]
    /\ permits' = permits + 1
    /\ UNCHANGED <<calls, metrics>>

\* Config.rule_timeout_ms elapses for a task that has not finished.  No code
\* reads rule_timeout_ms (main.rs:48,66 only), so nothing else changes.
RuleTimeoutElapses(c, h) ==
    /\ h \in DOMAIN tasks[c]
    /\ Pending(tasks[c][h])
    /\ ~tasks[c][h].late
    /\ tasks' = [tasks EXCEPT ![c][h].late = TRUE]
    /\ UNCHANGED <<permits, calls, metrics>>

\* execute_rules: handle.await for the next handle (rule_executor.rs:49-55);
\* after the last one the call returns Ok(alerts).
JoinHandle(c) ==
    /\ calls[c].pc = "joining"
    /\ LET t == tasks[c][calls[c].joined + 1] IN
       /\ Finished(t)
       /\ calls' = [calls EXCEPT
            ![c].joined = @ + 1,
            ![c].alerts = IF t.st = "ok" THEN @ \o t.out.alerts ELSE @,
            ![c].errors = IF t.st = "ok" THEN @ ELSE @ + 1,
            ![c].pc = IF calls[c].joined + 1 = Len(tasks[c]) THEN "returned" ELSE "joining"]
    /\ UNCHANGED <<permits, tasks, metrics>>

\* ---------------------------------------------------------- pipeline driver
\* Bounds of the driver: Config.batch_size (default 1000), Config.batch_timeout
\* and Config.rule_reload_interval in clock ticks (defaults 10 s and 60 s),
\* and the number of messages the input topic delivers.
BatchSize == 2
BatchTimeout == 2
RuleReloadInterval == 3
MaxMessages == 3

\* The rows of table `rules` when the service starts.
InitialStore == {R1, R3}

VARIABLES
    pc,            \* where process_transactions / process_batch stands
    batch,         \* the batch buffer (the part not yet drained during a flush)
    since_flush,   \* last_batch_time.elapsed()
    since_select,  \* time slept by sleep(batch_timeout) of this select!
    since_reload,  \* last_rules_reload.elapsed()
    rules_cache,   \* RuleEngineService.rules_cache (the rules, keyed by id)
    store,         \* rows of table `rules`
    consumed,      \* messages taken from the input topic
    sent,          \* alerts of the current transaction already sent
    out,           \* records the output topic accepted during this flush
    flush,         \* the flush in progress or last done: trigger, size, progress
    current,       \* the transaction drained by the loop of process_batch
    signal,        \* the interrupt signal: none, or pending (a ctrl_c future saw it)
    row_age        \* time since the row R7 was inserted, until a reload reads it

drvVars == <<pc, batch, since_flush, since_select, since_reload, rules_cache, store,
             consumed, sent, out, flush, current, signal, row_age>>
vars == <<permits, calls, tasks, metrics, pc, batch, since_flush, since_select,
          since_reload, rules_cache, store, consumed, sent, out, flush, current, signal,
          row_age>>

\* No transaction is being processed.
NoTransaction ==
    [transaction |-> TxA, risk_scored |-> FALSE, risk_score |-> 0,
     mev_detected |-> FALSE, mev_patterns |-> <<>>]

Min(a, b) == IF a < b THEN a ELSE b

\* i64 % 4 as Rust computes it: the remainder has the sign of the dividend.
rust_rem4(n) == IF n >= 0 THEN n % 4 ELSE -((-n) % 4)

\* SELECT ... FROM rules WHERE enabled = true (main.rs:334)
EnabledRows(rows) == {r \in rows : r.enabled}

\* The rules are read from the store at dispatch instead of from the cache.
OrdersOfStore(S) ==
    {s \in [1..Cardinality(EnabledRows(store)) -> EnabledRows(store)] :
        \A i, j \in 1..Cardinality(EnabledRows(store)) : i # j => s[i] # s[j]}

\* HashMap::values(): the rules of the cache in some iteration order.
Orders(S) ==
    {s \in [1..Cardinality(S) -> S] : \A i, j \in 1..Cardinality(S) : i # j => s[i] # s[j]}

\* RuleEngineService::new followed by start(): the initial reload_rules has
\* succeeded and the processing loop awaits its first select!.
InitDriver ==
    /\ pc = "select"
    /\ batch = <<>>
    /\ since_flush = 0
    /\ since_select = 0
    /\ since_reload = 0
    /\ store = InitialStore
    /\ rules_cache = EnabledRows(InitialStore)
    /\ consumed = 0
    /\ sent = 0
    /\ out = <<>>
    /\ flush = [trigger |-> "none", size |-> 0, done |-> 0, alerts |-> 0]
    /\ current = NoTransaction
    /\ signal = "none"
    /\ row_age = 0

\* Metrics::new: the counters that count failures.  Histograms, gauges and the
\* counters of successful work are written and never read by the service.
InitMetrics ==
    metrics = [rule_failures |-> 0, kafka_errors |-> 0, database_errors |-> 0]

\* The age of the inserted row after one more tick; it is followed until the
\* row is in the cache.
aged(age) ==
    IF R7 \in store /\ R7 \notin rules_cache THEN Min(age + 1, RuleReloadInterval) ELSE age

\* Time passes while the loop waits in select!; the sleep of the select! ends
\* the wait at batch_timeout.  Processing itself takes no clock tick.
Tick ==
    /\ pc = "select"
    /\ since_select < BatchTimeout
    /\ since_select' = since_select + 1
    /\ since_flush' = Min(since_flush + 1, BatchTimeout + 1)
    /\ since_reload' = Min(since_reload + 1, RuleReloadInterval)
    /\ row_age' = aged(row_age)
    /\ UNCHANGED <<permits, calls, tasks, metrics, pc, batch, rules_cache, store,
                   consumed, sent, out, flush, current, signal>>

\* process_batch is awaiting execute_rules, which has an answer ready: the
\* point of a transaction at which the time its processing took and the
\* changes of the store made meanwhile are accounted.  No clock and no row is
\* read between the dispatch of the rules and this point.
Accounting == pc = "rules" /\ calls["driver"].pc = "returned"

\* Time passes while process_batch awaits execute_rules.  last_batch_time is
\* not read before it is set again at the return of process_batch
\* (main.rs:237, 263), so its elapsed time is left as it is.
TickBusy ==
    /\ Accounting
    /\ since_reload < RuleReloadInterval \/ aged(row_age) # row_age
    /\ since_reload' = Min(since_reload + 1, RuleReloadInterval)
    /\ row_age' = aged(row_age)
    /\ UNCHANGED <<permits, calls, tasks, metrics, pc, batch, since_flush, since_select,
                   rules_cache, store, consumed, sent, out, flush, current, signal>>

\* A row is inserted into table `rules` by a client of the store.
InsertRule ==
    /\ pc \in {"select", "backoff", "flush"} \/ Accounting
    /\ R7 \notin store
    /\ store' = store \cup {R7}
    /\ row_age' = 0
    /\ UNCHANGED <<permits, calls, tasks, metrics, pc, batch, since_flush, since_select,
                   since_reload, rules_cache, consumed, sent, out, flush, current, signal>>

\* The process receives an interrupt signal while the loop waits in select!,
\* where a ctrl_c() future listens (main.rs:255).
Interrupt ==
    /\ pc = "select"
    /\ signal = "none"
    /\ signal' = "pending"
    /\ UNCHANGED <<permits, calls, tasks, metrics, pc, batch, since_flush, since_select,
                   since_reload, rules_cache, store, consumed, sent, out, flush, current,
                   row_age>>

\* select! completes with another branch than ctrl_c: the ctrl_c future of
\* this select! is dropped with the signal it saw; the next select! makes a
\* new listener, which sees only signals sent after its creation.
dropped(sig) == "none"

\* The size test written with > for >=.
FlushDueOffByOne(buffer) ==
    Len(buffer) > BatchSize \/ since_flush >= BatchTimeout

\* The test after batch.push (main.rs:234-235).
FlushDue(buffer) ==
    Len(buffer) >= BatchSize \/ since_flush >= BatchTimeout

\* select! takes consumer.recv() with a payload that parses: the transaction
\* is pushed, and process_batch is entered when the test after the push holds.
RecvTransaction(transaction) ==
    /\ pc = "select"
    /\ consumed < MaxMessages
    /\ consumed' = consumed + 1
    /\ batch' = Append(batch, transaction)
    /\ since_select' = 0
    /\ IF FlushDue(batch')
       THEN /\ pc' = "flush"
            /\ flush' = [trigger |-> IF Len(batch') >= BatchSize THEN "size" ELSE "elapsed",
                         size |-> Len(batch'), done |-> 0, alerts |-> 0]
       ELSE UNCHANGED <<pc, flush>>
    /\ signal' = dropped(signal)
    /\ UNCHANGED <<permits, calls, tasks, metrics, since_flush, since_reload, rules_cache,
                   store, sent, out, current, row_age>>

\* select! takes consumer.recv() with a payload that does not parse
\* (main.rs:240-243): logged, counted by record_database_error.
RecvMalformed ==
    /\ pc = "select"
    /\ consumed < MaxMessages
    /\ consumed' = consumed + 1
    /\ metrics' = [metrics EXCEPT !.database_errors = @ + 1]
    /\ since_select' = 0
    /\ signal' = dropped(signal)
    /\ UNCHANGED <<permits, calls, tasks, pc, batch, since_flush, since_reload, rules_cache,
                   store, sent, out, flush, current, row_age>>

\* The consumer is polled while process_batch is sending alerts.
RecvNoPayloadDuringFlush ==
    /\ pc \in {"select", "sending"}
    /\ consumed < MaxMessages
    /\ consumed' = consumed + 1
    /\ since_select' = 0
    /\ signal' = dropped(signal)
    /\ UNCHANGED <<permits, calls, tasks, metrics, pc, batch, since_flush, since_reload,
                   rules_cache, store, sent, out, flush, current, row_age>>

\* select! takes consumer.recv() with a message without payload (main.rs:228).
RecvNoPayload ==
    /\ pc = "select"
    /\ consumed < MaxMessages
    /\ consumed' = consumed + 1
    /\ since_select' = 0
    /\ signal' = dropped(signal)
    /\ UNCHANGED <<permits, calls, tasks, metrics, pc, batch, since_flush, since_reload,
                   rules_cache, store, sent, out, flush, current, row_age>>

\* The consumer error is returned from process_transactions.
RecvErrorFatal ==
    /\ pc = "select"
    /\ consumed < MaxMessages
    /\ consumed' = consumed + 1
    /\ metrics' = [metrics EXCEPT !.kafka_errors = @ + 1]
    /\ pc' = "failed"
    /\ signal' = dropped(signal)
    /\ UNCHANGED <<permits, calls, tasks, batch, since_flush, since_select, since_reload,
                   rules_cache, store, sent, out, flush, current, row_age>>

\* select! takes consumer.recv() with Err (main.rs:247-251): logged, counted,
\* then sleep(1 s).
RecvError ==
    /\ pc = "select"
    /\ consumed < MaxMessages
    /\ consumed' = consumed + 1
    /\ metrics' = [metrics EXCEPT !.kafka_errors = @ + 1]
    /\ pc' = "backoff"
    /\ signal' = dropped(signal)
    /\ UNCHANGED <<permits, calls, tasks, batch, since_flush, since_select, since_reload,
                   rules_cache, store, sent, out, flush, current, row_age>>

\* The sleep after a consumer error ends (one tick); the loop selects again.
BackoffDone ==
    /\ pc = "backoff"
    /\ pc' = "select"
    /\ since_select' = 0
    /\ since_flush' = Min(since_flush + 1, BatchTimeout + 1)
    /\ since_reload' = Min(since_reload + 1, RuleReloadInterval)
    /\ row_age' = aged(row_age)
    /\ UNCHANGED <<permits, calls, tasks, metrics, batch, rules_cache, store, consumed,
                   sent, out, flush, current, signal>>

\* select! takes signal::ctrl_c() (main.rs:255-258): break, then Ok(()).
CtrlC ==
    /\ pc = "select"
    /\ signal = "pending"
    /\ pc' = "stopped"
    /\ UNCHANGED <<permits, calls, tasks, metrics, batch, since_flush, since_select,
                   since_reload, rules_cache, store, consumed, sent, out, flush, current,
                   signal, row_age>>

\* The sleep branch runs process_batch while an earlier process_batch is still
\* sending.
SleepTimeoutWhileSending ==
    /\ pc \in {"select", "sending"}
    /\ since_select >= BatchTimeout \/ pc = "sending"
    /\ since_select' = 0
    /\ pc' = "flush"
    /\ flush' = [trigger |-> "sleep", size |-> Len(batch), done |-> 0, alerts |-> 0]
    /\ signal' = dropped(signal)
    /\ UNCHANGED <<permits, calls, tasks, metrics, batch, since_flush, since_reload,
                   rules_cache, store, consumed, sent, out, current, row_age>>

\* select! takes sleep(batch_timeout) (main.rs:260-265).
SleepTimeout ==
    /\ pc = "select"
    /\ since_select >= BatchTimeout
    /\ since_select' = 0
    /\ IF batch # <<>>
       THEN /\ pc' = "flush"
            /\ flush' = [trigger |-> "sleep", size |-> Len(batch), done |-> 0, alerts |-> 0]
       ELSE UNCHANGED <<pc, flush>>
    /\ signal' = dropped(signal)
    /\ UNCHANGED <<permits, calls, tasks, metrics, batch, since_flush, since_reload,
                   rules_cache, store, consumed, sent, out, current, row_age>>

\* process_batch returned Ok to process_transactions: last_batch_time is reset
\* and the loop selects again (main.rs:237, 263).
BatchReturns ==
    /\ pc' = "select"
    /\ since_flush' = 0
    /\ since_select' = 0

\* The cache is replaced by the rows found however far the loop over the rows
\* got.
reload_rules_in_place(cache, new_rules, ok) == new_rules

\* reload_rules (main.rs:331-381): the rows are deserialized into the local map
\* new_rules, which replaces rules_cache after the last row (main.rs:370); an
\* error on the way returns before the assignment and drops new_rules.
reload_rules(cache, new_rules, ok) == IF ok THEN new_rules ELSE cache

\* The reload test of process_batch written with > for >=.
ReloadDueLate == since_reload > RuleReloadInterval

\* The reload test of process_batch (main.rs:282).
ReloadDue == since_reload >= RuleReloadInterval

\* process_batch, before the loop (main.rs:274-284): the buffer is not empty at
\* either call site; reload_rules runs when due and succeeds.
ProcessBatchStart ==
    /\ pc = "flush"
    /\ IF ReloadDue
       THEN /\ rules_cache' = reload_rules(rules_cache, EnabledRows(store), TRUE)
            /\ since_reload' = 0
            /\ row_age' = 0
       ELSE UNCHANGED <<rules_cache, since_reload, row_age>>
    /\ pc' = "next_tx"
    /\ out' = <<>>
    /\ UNCHANGED <<permits, calls, tasks, metrics, batch, since_flush, since_select, store,
                   consumed, sent, flush, current, signal>>

\* reload_rules is due and fails, at the query (store unreachable) or at a row
\* that does not deserialize, after the rows new_rules were inserted: `?`
\* returns the error from process_batch and from process_transactions
\* (main.rs:283, 236, 262).  No counter is incremented on this path.
ProcessBatchReloadFails ==
    /\ pc = "flush"
    /\ ReloadDue
    /\ \E new_rules \in (SUBSET EnabledRows(store)) \ {EnabledRows(store)} :
          rules_cache' = reload_rules(rules_cache, new_rules, FALSE)
    /\ pc' = "failed"
    /\ UNCHANGED <<permits, calls, tasks, metrics, batch, since_flush, since_select,
                   since_reload, store, consumed, sent, out, flush, current, signal,
                   row_age>>

\* The loop takes the first transaction and leaves it in the buffer.
NextTransactionPeek ==
    /\ pc = "next_tx"
    /\ batch # <<>>
    /\ current' = [NoTransaction EXCEPT !.transaction = Head(batch)]
    /\ pc' = "risk"
    /\ UNCHANGED <<permits, calls, tasks, metrics, batch, since_flush, since_select,
                   since_reload, rules_cache, store, consumed, sent, out, flush, signal,
                   row_age>>

\* The loop drains the buffer from its end.
NextTransactionLast ==
    /\ pc = "next_tx"
    /\ batch # <<>>
    /\ batch' = SubSeq(batch, 1, Len(batch) - 1)
    /\ current' = [NoTransaction EXCEPT !.transaction = batch[Len(batch)]]
    /\ pc' = "risk"
    /\ UNCHANGED <<permits, calls, tasks, metrics, since_flush, since_select, since_reload,
                   rules_cache, store, consumed, sent, out, flush, signal, row_age>>

\* The loop of process_batch drains the next transaction (main.rs:287-288).
NextTransaction ==
    /\ pc = "next_tx"
    /\ batch # <<>>
    /\ batch' = Tail(batch)
    /\ current' = [NoTransaction EXCEPT !.transaction = Head(batch)]
    /\ pc' = "risk"
    /\ UNCHANGED <<permits, calls, tasks, metrics, since_flush, since_select, since_reload,
                   rules_cache, store, consumed, sent, out, flush, signal, row_age>>

\* risk_scorer.calculate_risk_score returns Ok (main.rs:291-292); it has no
\* error path (rule_executor.rs:170-221).  The score goes to a histogram.
CalculateRiskScore ==
    /\ pc = "risk"
    /\ current' = [current EXCEPT !.risk_scored = TRUE,
                                  !.risk_score = calculate_risk_score(current.transaction)]
    /\ pc' = "mev"
    /\ UNCHANGED <<permits, calls, tasks, metrics, batch, since_flush, since_select,
                   since_reload, rules_cache, store, consumed, sent, out, flush, signal,
                   row_age>>

\* The rules are dispatched without the MEV detection having run.
DetectMevSkipped ==
    /\ pc = "mev"
    /\ \E rules \in Orders(rules_cache) : ExecuteRules("driver", current.transaction, rules)
    /\ pc' = "rules"
    /\ UNCHANGED <<batch, since_flush, since_select, since_reload, rules_cache, store,
                   consumed, sent, out, flush, current, signal, row_age>>

\* mev_detector.detect_mev returns Ok (main.rs:295-298), then the rules of the
\* cache are cloned and passed to the executor (main.rs:301-302).
DetectMev ==
    /\ pc = "mev"
    /\ current' = [current EXCEPT !.mev_detected = TRUE,
                                  !.mev_patterns = detect_mev(current.transaction)]
    /\ \E rules \in Orders(rules_cache) : ExecuteRules("driver", current.transaction, rules)
    /\ pc' = "rules"
    /\ UNCHANGED <<batch, since_flush, since_select, since_reload, rules_cache, store,
                   consumed, sent, out, flush, signal, row_age>>

\* process_batch returns after its first transaction.
TransactionDoneFirst ==
    /\ calls' = [calls EXCEPT !["driver"] = NoCall]
    /\ tasks' = [tasks EXCEPT !["driver"] = <<>>]
    /\ sent' = 0
    /\ current' = NoTransaction
    /\ BatchReturns

\* The end of the loop body (main.rs:311-317): the alerts and the handles of
\* the transaction are dropped; after the last transaction process_batch
\* returns.
TransactionDone ==
    /\ calls' = [calls EXCEPT !["driver"] = NoCall]
    /\ tasks' = [tasks EXCEPT !["driver"] = <<>>]
    /\ sent' = 0
    /\ current' = NoTransaction
    /\ IF batch = <<>>
       THEN BatchReturns
       ELSE pc' = "next_tx" /\ UNCHANGED <<since_flush, since_select>>

\* execute_rules has returned (main.rs:302); without alerts the loop body ends.
RulesReturned ==
    /\ pc = "rules"
    /\ calls["driver"].pc = "returned"
    /\ flush' = [flush EXCEPT !.alerts = @ + Len(calls["driver"].alerts),
                              !.done = IF calls["driver"].alerts = <<>> THEN @ + 1 ELSE @]
    /\ IF calls["driver"].alerts = <<>>
       THEN TransactionDone
       ELSE pc' = "sending" /\ UNCHANGED <<calls, tasks, sent, current, since_flush, since_select>>
    /\ UNCHANGED <<permits, metrics, batch, since_reload, rules_cache, store, consumed, out,
                   signal, row_age>>

\* send_alert succeeds for the next alert (main.rs:305-309, 384-398): the
\* record goes to partition chain_id % 4 under key transaction_hash.
SendAlert ==
    /\ pc = "sending"
    /\ LET alert == calls["driver"].alerts[sent + 1] IN
       out' = Append(out, [key |-> alert.transaction_hash,
                           partition |-> rust_rem4(alert.chain_id),
                           rule_id |-> alert.rule_id, severity |-> alert.severity])
    /\ IF sent + 1 = Len(calls["driver"].alerts)
       THEN /\ flush' = [flush EXCEPT !.done = @ + 1]
            /\ TransactionDone
       ELSE /\ sent' = sent + 1
            /\ UNCHANGED <<calls, tasks, pc, flush, current, since_flush, since_select>>
    /\ UNCHANGED <<permits, metrics, batch, since_reload, rules_cache, store, consumed,
                   signal, row_age>>

\* send_alert fails: `?` returns the error from process_batch and from
\* process_transactions (main.rs:306, 395).
SendAlertFails ==
    /\ pc = "sending"
    /\ pc' = "failed"
    /\ UNCHANGED <<permits, calls, tasks, metrics, batch, since_flush, since_select,
                   since_reload, rules_cache, store, consumed, sent, out, flush, current,
                   signal, row_age>>

\* The task spawned by start() reloads the rules at every tick of its timer.
rule_reload_task_reloading ==
    /\ pc \notin {"stopped", "failed"}
    /\ rules_cache' = reload_rules(rules_cache, EnabledRows(store), TRUE)
    /\ since_reload' = 0
    /\ UNCHANGED <<permits, calls, tasks, metrics, pc, batch, since_flush, since_select,
                   store, consumed, sent, out, flush, current, signal, row_age>>

\* rule_reload_task, spawned by start() (main.rs:210-212): at every tick of
\* its interval timer it writes a debug line and nothing else.  The task has
\* a clone of db_pool and no handle on the service, so no variable changes.
\* It runs until the runtime shuts down with the end of the processing loop.
rule_reload_task ==
    /\ pc \notin {"stopped", "failed"}
    /\ UNCHANGED vars

\* ------------------------------------------------------------ specifications
\* The executor on its own, called concurrently by its callers.
InitExec == InitExecutor /\ InitMetrics /\ InitDriver

NextExec ==
    \/ /\ \E c \in Callers, transaction \in Transactions, rules \in RuleLists :
             ExecuteRules(c, transaction, rules)
       /\ UNCHANGED drvVars
    \/ (\E c \in Callers : \E h \in DOMAIN tasks[c] : TaskAcquire(c, h)) /\ UNCHANGED drvVars
    \/ (\E c \in Callers : \E h \in DOMAIN tasks[c] : TaskComplete(c, h)) /\ UNCHANGED drvVars
    \/ (\E c \in Callers : \E h \in DOMAIN tasks[c] : TaskPanic(c, h)) /\ UNCHANGED drvVars
    \/ (\E c \in Callers : \E h \in DOMAIN tasks[c] : RuleTimeoutElapses(c, h)) /\ UNCHANGED drvVars
    \/ (\E c \in Callers : JoinHandle(c)) /\ UNCHANGED drvVars

SpecExec == InitExec /\ [][NextExec]_vars

\* The service: the driver and the rule tasks its executor spawns.
Init == InitExecutor /\ InitMetrics /\ InitDriver

Next ==
    \/ Tick
    \/ InsertRule
    \/ \E transaction \in TopicTransactions : RecvTransaction(transaction)
    \/ RecvMalformed
    \/ RecvNoPayload
    \/ RecvError
    \/ BackoffDone
    \/ CtrlC
    \/ Interrupt
    \/ TickBusy
    \/ SleepTimeout
    \/ ProcessBatchStart
    \/ ProcessBatchReloadFails
    \/ NextTransaction
    \/ CalculateRiskScore
    \/ DetectMev
    \/ RulesReturned
    \/ SendAlert
    \/ SendAlertFails
    \/ (\E h \in DOMAIN tasks["driver"] : TaskAcquire("driver", h)) /\ UNCHANGED drvVars
    \/ (\E h \in DOMAIN tasks["driver"] : TaskComplete("driver", h)) /\ UNCHANGED drvVars
    \/ (\E h \in DOMAIN tasks["driver"] : TaskPanic("driver", h)) /\ UNCHANGED drvVars
    \/ JoinHandle("driver") /\ UNCHANGED drvVars
    \/ rule_reload_task

Spec == Init /\ [][Next]_vars

\* The input topic goes on after the MaxMessages messages that are counted:
\* select! takes consumer.recv() with one more payload that does not parse
\* (main.rs:240-243).  The counters of the model stop at MaxMessages.
RecvMalformedAgain ==
    /\ pc = "select"
    /\ consumed = MaxMessages
    /\ metrics' = [metrics EXCEPT !.database_errors = Min(@ + 1, MaxMessages)]
    /\ since_select' = 0
    /\ signal' = dropped(signal)
    /\ UNCHANGED <<permits, calls, tasks, pc, batch, since_flush, since_reload, rules_cache,
                   store, consumed, sent, out, flush, current, row_age>>

\* select! takes consumer.recv() with one more Err (main.rs:247-251).
RecvErrorAgain ==
    /\ pc = "select"
    /\ consumed = MaxMessages
    /\ metrics' = [metrics EXCEPT !.kafka_errors = Min(@ + 1, MaxMessages)]
    /\ pc' = "backoff"
    /\ signal' = dropped(signal)
    /\ UNCHANGED <<permits, calls, tasks, batch, since_flush, since_select, since_reload,
                   rules_cache, store, consumed, sent, out, flush, current, row_age>>

\* The service on an input topic that never ends, with no interrupt signal,
\* no failing reload, no failing publish and no panic.  The loop and the
\* tasks keep running, and time passes while the loop waits.
NextStream ==
    \/ Tick
    \/ \E transaction \in TopicTransactions : RecvTransaction(transaction)
    \/ RecvMalformed
    \/ RecvNoPayload
    \/ RecvError
    \/ RecvMalformedAgain
    \/ RecvErrorAgain
    \/ BackoffDone
    \/ SleepTimeout
    \/ ProcessBatchStart
    \/ NextTransaction
    \/ CalculateRiskScore
    \/ DetectMev
    \/ RulesReturned
    \/ SendAlert
    \/ (\E h \in DOMAIN tasks["driver"] : TaskAcquire("driver", h)) /\ UNCHANGED drvVars
    \/ (\E h \in DOMAIN tasks["driver"] : TaskComplete("driver", h)) /\ UNCHANGED drvVars
    \/ JoinHandle("driver") /\ UNCHANGED drvVars

SpecStream ==
    /\ Init
    /\ [][NextStream]_vars
    /\ WF_vars(NextStream)
    /\ WF_vars(Tick)
    /\ WF_vars(SleepTimeout)
    /\ WF_vars(BackoffDone)

\* The executor of a service configured with any max_concurrent_rules from 0
\* on (Semaphore::new(max_concurrent_rules), rule_executor.rs:20), called by
\* the driver; every task and the caller are scheduled fairly.
InitConfigured ==
    /\ permits \in 0..MaxConcurrentRules
    /\ calls = [c \in Callers |-> NoCall]
    /\ tasks = [c \in Callers |-> <<>>]
    /\ InitMetrics
    /\ InitDriver

NextConfigured ==
    \/ /\ \E transaction \in Transactions, rules \in RuleLists :
             ExecuteRules("driver", transaction, rules)
       /\ UNCHANGED drvVars
    \/ (\E h \in DOMAIN tasks["driver"] : TaskAcquire("driver", h)) /\ UNCHANGED drvVars
    \/ (\E h \in DOMAIN tasks["driver"] : TaskComplete("driver", h)) /\ UNCHANGED drvVars
    \/ (\E h \in DOMAIN tasks["driver"] : TaskPanic("driver", h)) /\ UNCHANGED drvVars
    \/ JoinHandle("driver") /\ UNCHANGED drvVars

SpecConfigured ==
    /\ InitConfigured
    /\ [][NextConfigured]_vars
    /\ WF_vars((\E h \in DOMAIN tasks["driver"] : TaskAcquire("driver", h)) /\ UNCHANGED drvVars)
    /\ WF_vars((\E h \in DOMAIN tasks["driver"] :
                   TaskComplete("driver", h) \/ TaskPanic("driver", h)) /\ UNCHANGED drvVars)
    /\ WF_vars(JoinHandle("driver") /\ UNCHANGED drvVars)

\* One transaction of a flush, from the point where the loop of process_batch
\* has drained it: the transaction is any of AnalysisTransactions, delivered
\* alone and flushed by the sleep of select!.
\* An address with every second letter in upper case.
mixed_case(address) ==
    [k \in 1..Len(address) |->
        IF k % 2 = 0 /\ address[k] \in {"a", "b", "c", "d", "e", "f"}
        THEN CHOOSE u \in {"A", "B", "C", "D", "E", "F"} : lower(u) = address[k]
        ELSE address[k]]

data_of_length(n) ==
    [k \in 1..n |-> IF k % 2 = 1 THEN "0" ELSE "x"]

AnalysisTransactions ==
    {Tx(<<"0", "x", "4">>, chain, to, value, gas_price, data) :
        chain \in {1, 137, -1, -6},
        to \in {<<"0", "x", "d">>,
                mixed_case(UniswapV2Router)},
        value \in {<<"9">>, <<"1", "0", "0", "0", "0">>, <<"1", "0", "0", "0", "1">>,
                   <<"1", "0", "0", "0", "4">>, <<"1", "0", "0", "0", "0", "0">>,
                   <<"1", "0", "0", "0", "0", "1">>, <<"1", "0", "0", "0", "3", "2">>,
                   <<"0", "x", "f">>},
        gas_price \in {<<"5", "0">>, <<"5", "1">>, <<"1", "0", "0">>, <<"1", "0", "1">>,
                       <<"2", "0", "0">>, <<"2", "0", "1">>, <<"-", "1">>},
        data \in {<<>>, <<"0", "x">>, <<"0", "x", "a">>,
                  data_of_length(1000), data_of_length(1001)}}

InitAnalysis ==
    /\ InitExecutor
    /\ InitMetrics
    /\ pc = "risk"
    /\ batch = <<>>
    /\ since_flush = BatchTimeout
    /\ since_select = 0
    /\ since_reload = IF BatchTimeout >= RuleReloadInterval THEN 0 ELSE BatchTimeout
    /\ store = InitialStore
    /\ rules_cache = EnabledRows(InitialStore)
    /\ consumed = 1
    /\ sent = 0
    /\ out = <<>>
    /\ flush = [trigger |-> "sleep", size |-> 1, done |-> 0, alerts |-> 0]
    /\ \E transaction \in AnalysisTransactions :
          current = [NoTransaction EXCEPT !.transaction = transaction]
    /\ signal = "none"
    /\ row_age = 0

NextAnalysis ==
    \/ CalculateRiskScore
    \/ DetectMev
    \/ RulesReturned
    \/ SendAlert
    \/ SendAlertFails
    \/ (\E h \in DOMAIN tasks["driver"] : TaskAcquire("driver", h)) /\ UNCHANGED drvVars
    \/ (\E h \in DOMAIN tasks["driver"] : TaskComplete("driver", h)) /\ UNCHANGED drvVars
    \/ (\E h \in DOMAIN tasks["driver"] : TaskPanic("driver", h)) /\ UNCHANGED drvVars
    \/ JoinHandle("driver") /\ UNCHANGED drvVars

SpecAnalysis == InitAnalysis /\ [][NextAnalysis]_vars

\* One call of execute_rules on a new executor, with one rule of one condition
\* and one transaction: the call spawns a task exactly when the condition
\* holds for the transaction.
SwapSignature == <<"0", "x", "3", "8", "e", "d", "1", "7", "3", "9">>
OtherSignature == <<"0", "x", "3", "8", "e", "d", "1", "7", "3", "a">>

ConditionTransactions ==
    {Tx(<<"0", "x", "5">>, chain, <<"0", "x", "d">>, value, <<"2", "0">>, <<"0", "x">>) :
        chain \in {10, 137},
        value \in {<<"0">>, <<"1">>, <<"9">>, <<"1", "0">>, <<"1", "1">>,
                   <<"5", "0", "0", "0">>, <<"5", "0", "0", "1">>,
                   <<"1", "6", "7", "7", "7", "2", "1", "5">>,
                   <<"1", "6", "7", "7", "7", "2", "1", "6">>,
                   <<"-", "1">>, <<"0", "x", "f">>}}
    \cup
    {Tx(<<"0", "x", "6">>, 1, to, <<"0">>, <<"2", "0">>, data) :
        to \in {mixed_case(UniswapV2Router), <<"0", "x", "d">>},
        data \in {SwapSignature, SwapSignature \o <<"a", "a">>, OtherSignature \o <<"0", "0">>,
                  SubSeq(SwapSignature, 1, 6), to_lowercase(<<"0", "x">>) \o <<"3", "8", "E", "D", "1", "7", "3", "9">>}}

NumericOperators == {"GreaterThan", "LessThan", "GreaterThanOrEqual", "LessThanOrEqual"}
OtherOperators == {"Equal", "NotEqual", "Contains", "StartsWith", "EndsWith", "In", "NotIn"}

\* The rule values of the ValueComparison conditions.
ComparisonValues ==
    <<JNum(10), JStr(<<"1", "0">>), JNull, JNum(5000), JStr(<<"5", "0", "0", "0">>),
      JStr(<<"1">>), JArr(<<JNum(10), JStr(<<"9">>)>>)>>

\* The bounds of the ValueThreshold conditions.
ThresholdBounds ==
    {None, Some(<<"1">>), Some(<<"1", "0">>), Some(<<"x">>),
     Some(<<"1", "6", "7", "7", "7", "2", "1", "5">>)}

\* The conditions of the other kinds.
OtherConditions ==
    <<AddressMatch("to", <<UniswapV3Router, <<"0", "x", "D">>>>),
      AddressMatch("chain_id", <<<<"1">>>>),
      GasAnalysis(Some(<<"1", "0">>), Some(<<"3", "0">>), Some(<<"2", "1">>)),
      GasAnalysis(Some(<<"2", "1">>), None, None),
      GasAnalysis(None, Some(<<"x">>), Some(<<"2", "2">>)),
      TimeWindow(Some(5), None), TimeWindow(None, Some(6))>>

ConditionRule(condition) ==
    [id |-> 8, enabled |-> TRUE, conditions |-> <<condition>>,
     actions |-> <<CreateAlert("Low", "h")>>]

\* execute_rules is called once with the rule of the condition.
ExecuteCondition(transaction, condition) ==
    /\ calls["driver"].pc = "idle"
    /\ ExecuteRules("driver", transaction, <<ConditionRule(condition)>>)
    /\ UNCHANGED drvVars

InitConditions == InitExecutor /\ InitMetrics /\ InitDriver

NextConditions ==
    \/ \E transaction \in ConditionTransactions, f \in {"value", "chain_id", "missing"},
          op \in NumericOperators \cup OtherOperators, k \in 1..Len(ComparisonValues) :
            ExecuteCondition(transaction, ValueComparison(f, op, ComparisonValues[k]))
    \/ \E transaction \in ConditionTransactions, f \in {"value", "chain_id", "missing"},
          min \in ThresholdBounds, max \in ThresholdBounds :
            ExecuteCondition(transaction, ValueThreshold(f, min, max))
    \/ \E transaction \in ConditionTransactions,
          address \in {UniswapV2Router, <<"0", "x", "D">>},
          signature \in {SwapSignature, OtherSignature, SubSeq(SwapSignature, 1, 6),
                         SwapSignature \o <<"a", "a">>} :
            ExecuteCondition(transaction, ContractCall(address, signature))
    \/ \E transaction \in ConditionTransactions, k \in 1..Len(OtherConditions) :
            ExecuteCondition(transaction, OtherConditions[k])
    \/ (\E h \in DOMAIN tasks["driver"] : TaskAcquire("driver", h)) /\ UNCHANGED drvVars
    \/ (\E h \in DOMAIN tasks["driver"] : TaskComplete("driver", h)) /\ UNCHANGED drvVars
    \/ (\E h \in DOMAIN tasks["driver"] : TaskPanic("driver", h)) /\ UNCHANGED drvVars
    \/ JoinHandle("driver") /\ UNCHANGED drvVars

SpecConditions == InitConditions /\ [][NextConditions]_vars

\* ------------------------------------------------------------ properties
RunningIn(c) == {h \in DOMAIN tasks[c] : tasks[c][h].st = "running"}
WaitingIn(c) == {h \in DOMAIN tasks[c] : tasks[c][h].st = "waiting"}
RunningCount == Cardinality(RunningIn("driver")) + Cardinality(RunningIn("other"))

Made(c) == calls[c].pc # "idle"
RuleOf(c, h) == calls[c].rules[tasks[c][h].rule]
Fired(c, i) == \E h \in DOMAIN tasks[c] : tasks[c][h].rule = i
AllConditionsTrue(rule, transaction) ==
    \A j \in 1..Len(rule.conditions) : evaluate(rule.conditions[j], transaction)
IsCreateAlert(action) == action.type = "CreateAlert"
IsIntent(action) == action.type # "CreateAlert"

\* C1: at every moment, over all callers sharing the executor, the number of
\* rule executions holding a permit is at most max_concurrent_rules.
Thm_C1_ConcurrencyBound == RunningCount <= MaxConcurrentRules

\* All permits are taken, by tasks of both callers, while a further task waits.
Wit_C1_Saturated ==
    /\ RunningCount = MaxConcurrentRules
    /\ RunningIn("driver") # {} /\ RunningIn("other") # {}
    /\ WaitingIn("driver") # {}

\* C2: a permit is held only by a running execution and is given back when the
\* execution ends, by return or by panic; with no call in flight all
\* max_concurrent_rules permits are available.
Thm_C2_PermitsReleased ==
    /\ permits + RunningCount = MaxConcurrentRules
    /\ (\A c \in Callers : calls[c].pc # "joining") => permits = MaxConcurrentRules

\* Both callers have returned, one of them after a panic of a task, the other
\* after tasks that succeeded, and every permit is back.
Wit_C2_AllReturned ==
    /\ \A c \in Callers : calls[c].pc = "returned"
    /\ \E h \in DOMAIN tasks["driver"] : tasks["driver"][h].st = "panicked"
    /\ \E h \in DOMAIN tasks["other"] : tasks["other"][h].st = "ok"
    /\ permits = MaxConcurrentRules

\* The alerts of the tasks that succeeded, in the order of the handles.
RECURSIVE ok_alerts(_, _)
ok_alerts(ts, h) ==
    IF h > Len(ts) THEN <<>>
    ELSE (IF ts[h].st = "ok" THEN ts[h].out.alerts ELSE <<>>) \o ok_alerts(ts, h + 1)
PanickedIn(c) == {h \in DOMAIN tasks[c] : tasks[c][h].st = "panicked"}

\* C3: a rule execution that fails does not cancel its siblings: the call
\* returns Ok with every alert of the rules that succeeded, and the failure is
\* logged and counted.
CE_C3_FailureCounted ==
    \A c \in Callers : calls[c].pc = "returned" =>
        /\ calls[c].alerts = ok_alerts(tasks[c], 1)
        /\ calls[c].errors = Cardinality(PanickedIn(c))
        /\ metrics.rule_failures >= calls[c].errors

\* C4: a rule execution that has not finished when rule_timeout_ms expires is
\* abandoned, counts as a failure and contributes no alerts.
CE_C4_TimeoutAbandons ==
    \A c \in Callers : \A h \in DOMAIN tasks[c] :
        tasks[c][h].late => tasks[c][h].st \notin {"waiting", "running", "ok"}

\* C5: a rule fires (gets an execution) iff it is enabled and every one of its
\* conditions evaluates true on the transaction, and every alert and intent of
\* the call comes from such a rule; a disabled rule contributes nothing.
Thm_C5_FiresIffEnabledAndAll ==
    \A c \in Callers : Made(c) =>
        /\ \A i \in 1..Len(calls[c].rules) :
              Fired(c, i) <=> /\ calls[c].rules[i].enabled
                              /\ AllConditionsTrue(calls[c].rules[i], calls[c].transaction)
        /\ \A k \in 1..Len(calls[c].alerts) :
              \E i \in 1..Len(calls[c].rules) :
                 /\ calls[c].rules[i].id = calls[c].alerts[k].rule_id
                 /\ calls[c].rules[i].enabled
                 /\ AllConditionsTrue(calls[c].rules[i], calls[c].transaction)
        /\ \A h \in DOMAIN tasks[c] : \A k \in 1..Len(tasks[c][h].out.intents) :
              \E i \in 1..Len(calls[c].rules) :
                 /\ calls[c].rules[i].id = tasks[c][h].out.intents[k].rule_id
                 /\ calls[c].rules[i].enabled
                 /\ AllConditionsTrue(calls[c].rules[i], calls[c].transaction)

\* A call over a slice holding the disabled, otherwise matching R3 has returned
\* alerts of another rule.
Wit_C5_DisabledSkipped ==
    /\ calls["driver"].pc = "returned"
    /\ \E i \in 1..Len(calls["driver"].rules) :
          /\ ~calls["driver"].rules[i].enabled
          /\ AllConditionsTrue(calls["driver"].rules[i], calls["driver"].transaction)
          /\ ~Fired("driver", i)
    /\ calls["driver"].alerts # <<>>

\* C6: the conditions of a rule are evaluated in declared order and evaluation
\* stops at the first false one; the invalid regex of R2 behind a failing
\* ChainFilter is never compiled.
Thm_C6_ShortCircuit ==
    \A c \in Callers : Made(c) =>
        \A i \in 1..Len(calls[c].rules) :
            LET ev == calls[c].evaluated[i]
                conds == calls[c].rules[i].conditions IN
            /\ Len(ev) <= Len(conds)
            /\ \A k \in 1..Len(ev) : ev[k] = k
            /\ \A k \in 1..Len(ev) : ~evaluate(conds[k], calls[c].transaction) => k = Len(ev)
            /\ \A k \in 1..Len(ev) :
                  compiles_regex(conds[k], calls[c].transaction) =>
                      \A j \in 1..(k - 1) : evaluate(conds[j], calls[c].transaction)

\* Scenario 4: R2 on a transaction of chain 1; only the ChainFilter ran.
Wit_C6_RegexNotCompiled ==
    \E i \in 1..Len(calls["driver"].rules) :
        /\ Made("driver")
        /\ calls["driver"].rules[i] = R2
        /\ calls["driver"].transaction.chain_id = 1
        /\ calls["driver"].evaluated[i] = <<1>>

\* C7: an enabled rule with an empty condition list matches every transaction.
Thm_C7_EmptyConditionsMatch ==
    \A c \in Callers : Made(c) =>
        \A i \in 1..Len(calls[c].rules) :
            (calls[c].rules[i].enabled /\ calls[c].rules[i].conditions = <<>>) => Fired(c, i)

\* Both callers run the condition-free R1, on different transactions.
Wit_C7_EmptyConditions ==
    /\ \A c \in Callers : Made(c) /\ \E h \in DOMAIN tasks[c] : RuleOf(c, h) = R1
    /\ calls["driver"].transaction # calls["other"].transaction

\* C8: an execution that returns yields one alert per CreateAlert action, in
\* the order of those actions, with the rule's id, the transaction's hash and
\* chain_id and the action's severity and tags; the other action kinds yield
\* an intent each, in order, and no alert; no action, no alert.
Thm_C8_AlertsPerCreateAlert ==
    \A c \in Callers : \A h \in DOMAIN tasks[c] : tasks[c][h].st = "ok" =>
        LET rule == RuleOf(c, h)
            creates == SelectSeq(rule.actions, IsCreateAlert)
            others == SelectSeq(rule.actions, IsIntent)
            res == tasks[c][h].out IN
        /\ Len(res.alerts) = Len(creates)
        /\ \A k \in 1..Len(creates) :
              /\ res.alerts[k].rule_id = rule.id
              /\ res.alerts[k].transaction_hash = calls[c].transaction.hash
              /\ res.alerts[k].chain_id = calls[c].transaction.chain_id
              /\ res.alerts[k].severity = creates[k].severity
              /\ res.alerts[k].tags = creates[k].tags
        /\ Len(res.intents) = Len(others)
        /\ \A k \in 1..Len(others) : res.intents[k].action = others[k].type

\* Executions that returned for R1 (two alerts around an intent), R4 (intents
\* only) and R6 (no action).
Wit_C8_AllKinds ==
    /\ calls["driver"].pc = "returned" /\ calls["other"].pc = "returned"
    /\ Len(tasks["driver"]) = 2
    /\ \A h \in DOMAIN tasks["driver"] : tasks["driver"][h].st = "ok"
    /\ tasks["driver"][1].out.alerts = <<>> /\ Len(tasks["driver"][1].out.intents) = 4
    /\ Len(calls["driver"].alerts) = 2
    /\ \E h \in DOMAIN tasks["other"] : tasks["other"][h].st = "ok" /\ RuleOf("other", h) = R6

\* The largest number of actions of a rule of the snapshot.
MaxActionsPerRule(S) ==
    IF S = {} THEN 0
    ELSE CHOOSE n \in {Len(r.actions) : r \in S} : \A r \in S : Len(r.actions) <= n

\* C9: the alerts produced for a batch B against snapshot S number at most
\* |B| x (largest number of actions of a rule of S) x |S|.
Thm_C9_AlertBound ==
    flush.alerts <= flush.size * MaxActionsPerRule(rules_cache) * Cardinality(rules_cache)

\* A full batch has been processed against a snapshot of two rules, with alerts.
Wit_C9_FullBatchWithAlerts ==
    /\ pc = "select"
    /\ flush.size = BatchSize /\ flush.done = BatchSize
    /\ Cardinality(rules_cache) = 2
    /\ flush.alerts >= 3

Waiting == pc \in {"select", "backoff", "stopped"}
InFlight == IF pc \in {"risk", "mev", "rules", "sending"} THEN 1 ELSE 0

\* C10: the buffer never holds batch_size transactions while the loop can take
\* a message: a push that brings it to batch_size enters process_batch, which
\* takes the whole buffer, every transaction of it being processed before the
\* loop selects again.
Thm_C10_SizeTrigger ==
    /\ Waiting => Len(batch) < BatchSize
    /\ flush.trigger = "size" => flush.size = BatchSize
    /\ (pc \in {"flush", "next_tx", "risk", "mev", "rules", "sending"}) =>
          flush.done + InFlight + Len(batch) = flush.size
    /\ (Waiting /\ flush.trigger # "none") => flush.done = flush.size

\* The push of the batch_size-th transaction has flushed the buffer, and the
\* loop selects again with an empty buffer.
Wit_C10_SizeFlushDone ==
    /\ pc = "select"
    /\ flush.trigger = "size"
    /\ flush.done = BatchSize
    /\ batch = <<>>
    /\ since_flush = 0

\* C11: a buffer that is not empty and not full is flushed no later than
\* batch_timeout after the last flush, whatever messages arrive meanwhile: the
\* loop never waits with a non-empty buffer once more than batch_timeout has
\* passed since the last flush.
CE_C11_TimeTrigger ==
    (pc = "select" /\ batch # <<>>) => since_flush <= BatchTimeout

\* C12: a flush is atomic with respect to consumption: a message is consumed
\* only while the loop waits in select!, and then every transaction of the
\* last flush has been processed and every alert returned for it published.
Thm_C12_FlushAtomic ==
    [][consumed' # consumed =>
          /\ pc = "select"
          /\ flush.trigger # "none" => (flush.done = flush.size /\ Len(out) = flush.alerts)]_vars

\* A full buffer was flushed with its alerts published, and a transaction
\* consumed after that flush waits in the buffer.
Wit_C12_ConsumedAfterFlush ==
    /\ pc = "select"
    /\ flush.trigger = "size" /\ flush.done = flush.size
    /\ Len(out) >= 2 /\ Len(out) = flush.alerts
    /\ batch # <<>>

\* C13: on an interrupt the driver drains the batch before exiting: the loop
\* never ends on the signal with transactions left in the buffer.
CE_C13_DrainOnInterrupt ==
    pc = "stopped" => batch = <<>>

\* C14: after the interrupt signal has been delivered no further message is
\* consumed from the input topic.
CE_C14_NoConsumeAfterSignal ==
    [][signal = "pending" => consumed' = consumed]_vars

\* C15: at the start of a batch the catalog is reloaded from the store, and the
\* stamp reset, iff rule_reload_interval has passed since the last reload, and
\* this before any transaction of the batch is drained or evaluated; otherwise
\* catalog and stamp stay as they are.
Thm_C15_ReloadAtBatchStart ==
    [][(pc = "flush" /\ pc' = "next_tx") =>
          /\ Len(batch) = flush.size /\ flush.done = 0
          /\ calls["driver"].pc = "idle" /\ calls'["driver"].pc = "idle"
          /\ IF since_reload >= RuleReloadInterval
             THEN rules_cache' = EnabledRows(store) /\ since_reload' = 0
             ELSE rules_cache' = rules_cache /\ since_reload' = since_reload]_vars

\* A batch has just started with a reload that brought the inserted R7 into
\* the catalog; none of its transactions is drained yet.
Wit_C15_ReloadedAtStart ==
    /\ pc = "next_tx"
    /\ Len(batch) = flush.size /\ flush.done = 0
    /\ since_reload = 0
    /\ R7 \in rules_cache

\* C16: a failed reload is not fatal: the batch that triggered it is still
\* processed and the pipeline keeps running, so process_batch always goes on
\* from its reload step to the transactions of the batch.
CE_C16_ReloadFailureNonFatal ==
    [][(pc = "flush" /\ pc' # pc) => pc' = "next_tx"]_vars

\* C17: the catalog is never a partially built snapshot: it holds enabled
\* rules only, and every step leaves it as it was or replaces it by the
\* complete set of enabled rows of the store, also when a reload fails after
\* some of the rows were deserialized.
Thm_C17_NoPartialSnapshot ==
    /\ [](\A r \in rules_cache : r.enabled)
    /\ [][rules_cache' = rules_cache \/ rules_cache' = EnabledRows(store)]_vars

\* A reload has failed while the store held a row the catalog lacks; the
\* catalog is still the snapshot of the initial reload.
Wit_C17_FailedReloadKeepsSnapshot ==
    /\ pc = "failed"
    /\ calls["driver"].pc = "idle" /\ ~current.risk_scored
    /\ Len(batch) = flush.size
    /\ R7 \in store
    /\ rules_cache = EnabledRows(InitialStore)

Range(f) == {f[i] : i \in DOMAIN f}

\* C18: a transaction is evaluated against the one snapshot taken at its
\* dispatch: while its evaluation is in flight the rule set of the call is the
\* catalog, every task and every alert comes from that rule set, and neither
\* the catalog nor the rule set of the call changes, whatever happens to the
\* store.
Thm_C18_SingleSnapshot ==
    /\ [](pc \in {"rules", "sending"} =>
            /\ Range(calls["driver"].rules) = rules_cache
            /\ Len(calls["driver"].rules) = Cardinality(rules_cache)
            /\ \A h \in DOMAIN tasks["driver"] : RuleOf("driver", h) \in rules_cache
            /\ \A k \in 1..Len(calls["driver"].alerts) :
                  \E r \in rules_cache : r.id = calls["driver"].alerts[k].rule_id)
    /\ [][(pc \in {"rules", "sending"} /\ pc' \in {"rules", "sending"}) =>
            /\ rules_cache' = rules_cache
            /\ calls'["driver"].rules = calls["driver"].rules]_vars

\* R7 was inserted into the store, which the catalog does not know yet; a
\* transaction that R7 matches has been evaluated against the catalog and got
\* the alerts of R1 alone.
Wit_C18_StoreChangedInFlight ==
    /\ pc = "rules" /\ calls["driver"].pc = "returned"
    /\ R7 \in store /\ R7 \notin rules_cache
    /\ calls["driver"].transaction.chain_id = 137
    /\ Len(calls["driver"].alerts) = 2

\* C19: a transaction dispatched rule_reload_interval or more after the
\* insertion of the enabled row R7 is evaluated against a catalog that
\* contains R7.
CE_C19_HotReload ==
    [][(pc = "mev" /\ pc' = "rules" /\ R7 \in store /\ row_age >= RuleReloadInterval) =>
          R7 \in rules_cache]_vars

\* C20: an alert of a transaction is published only after the risk score and
\* the MEV patterns of that transaction were computed and execute_rules has
\* returned with every rule task of it ended.
Thm_C20_AnalysisBeforePublish ==
    [][Len(out') > Len(out) =>
          /\ pc = "sending"
          /\ current.risk_scored /\ current.mev_detected
          /\ calls["driver"].pc = "returned"
          /\ \A h \in DOMAIN tasks["driver"] : Finished(tasks["driver"][h])
          /\ out'[Len(out')].key = current.transaction.hash]_vars

\* The first alert of a transaction with two alerts has been published.
Wit_C20_FirstAlertPublished ==
    /\ pc = "sending" /\ sent = 1
    /\ Len(out) >= 1
    /\ out[Len(out)].key = current.transaction.hash
    /\ current.risk_scored /\ current.mev_detected

\* C21: flushes are sequential.  A flush begins only from the select! of the
\* loop, when every transaction of the flush before it is done and every alert
\* found for them has been handed to the output topic; and a record is
\* handed to the output topic only by the flush in progress.
Thm_C21_SequentialFlushes ==
    [][/\ (pc' = "flush" /\ pc # "flush") =>
             /\ pc = "select"
             /\ flush.done = flush.size
             /\ Len(out) = flush.alerts
       /\ Len(out') > Len(out) =>
             /\ pc = "sending"
             /\ flush.size = flush.size /\ flush'.trigger = flush.trigger
             /\ Len(out') <= flush'.alerts]_vars

\* A flush begins after the flush before it has published alerts.
Wit_C21_NextFlushAfterPublish ==
    /\ pc = "flush"
    /\ out # <<>>
    /\ flush.done = 0

\* C22: a failed publish of an alert does not end the pipeline: the alerts and
\* transactions after it are still processed.
CE_C22_PublishFailureSurvived ==
    [][pc = "sending" => pc' # "failed"]_vars

\* C23: a message whose payload fails to decode is dropped and counted as
\* malformed input only: the buffer keeps its transactions, the pipeline goes
\* on, and the counters of consumer errors and of database errors stay as
\* they are.
CE_C23_MalformedCounted ==
    [][consumed' # consumed =>
          /\ SubSeq(batch', 1, Len(batch)) = batch \/ pc' = "flush"
          /\ pc' \notin {"failed", "stopped"}
          /\ metrics'.database_errors = metrics.database_errors]_vars

\* C24: a consumer error is counted once, the driver then sleeps and selects
\* again; neither step ends the service or changes the buffer.
Thm_C24_ConsumeErrorRetried ==
    /\ [](pc = "backoff" => ENABLED BackoffDone)
    /\ [][/\ metrics'.kafka_errors # metrics.kafka_errors =>
                /\ metrics'.kafka_errors = metrics.kafka_errors + 1
                /\ pc = "select" /\ pc' = "backoff"
                /\ batch' = batch
          /\ pc = "backoff" =>
                /\ pc' \in {"backoff", "select"}
                /\ batch' = batch
                /\ metrics' = metrics]_vars

\* The driver sleeps after a consumer error with transactions in the buffer.
Wit_C24_BackoffWithBuffer ==
    /\ pc = "backoff"
    /\ batch # <<>>
    /\ metrics.kafka_errors >= 1

\* C25: every record of the output topic has the transaction hash as key and
\* a partition in 0..3, the same for all alerts of one transaction.
CE_C25_PartitionInRange ==
    \A i \in 1..Len(out) :
        /\ pc = "sending" => out[i].key = current.transaction.hash
        /\ out[i].partition \in 0..3
        /\ out[i].partition = out[1].partition

\* The alerts of the rules of a slice that apply to the transaction, rule by
\* rule in the order of the slice.
RECURSIVE alerts_of(_, _, _)
alerts_of(transaction, rules, i) ==
    IF i > Len(rules) THEN <<>>
    ELSE (IF should_apply(rules[i], transaction).result
          THEN execute_single_rule(rules[i], transaction).alerts
          ELSE <<>>)
         \o alerts_of(transaction, rules, i + 1)

\* C26: the alerts a call of execute_rules returns, when no rule task of it
\* failed, are a function of the transaction and the rules alone: two calls
\* with the same transaction and rules return the same alerts, whatever the
\* order in which their tasks ran and whatever was executed before.
Thm_C26_Deterministic ==
    /\ \A c \in Callers :
          (calls[c].pc = "returned" /\ calls[c].errors = 0) =>
              calls[c].alerts = alerts_of(calls[c].transaction, calls[c].rules, 1)
    /\ \A c, d \in Callers :
          (/\ calls[c].pc = "returned" /\ calls[c].errors = 0
           /\ calls[d].pc = "returned" /\ calls[d].errors = 0
           /\ calls[c].transaction = calls[d].transaction
           /\ calls[c].rules = calls[d].rules) =>
              calls[c].alerts = calls[d].alerts

\* Two calls with the same transaction and rules, each with two rule tasks,
\* have both returned alerts.
Wit_C26_SameInputsTwice ==
    /\ \A c \in Callers :
          /\ calls[c].pc = "returned" /\ calls[c].errors = 0
          /\ Len(tasks[c]) = 2
          /\ Len(calls[c].alerts) = 3
    /\ calls["driver"].transaction = calls["other"].transaction
    /\ calls["driver"].rules = calls["other"].rules

\* C27: the risk score is the sum, capped at 1.0, of 0.3 for a value above
\* 100 ETH or else 0.1 for a value above 10 ETH, 0.2 for a gas price above
\* 100 gwei or else 0.1 above 50 gwei, and 0.1 for data that is neither empty
\* nor "0x"; a value or gas price that does not parse adds nothing.
CE_C27_RiskScoreIncrements ==
    current.risk_scored =>
        LET transaction == current.transaction
            value_part ==
                IF ~parse_ok(transaction.value) THEN 0
                ELSE IF parse_value(transaction.value) > 100 * WeiPerEth THEN 3
                ELSE IF parse_value(transaction.value) > 10 * WeiPerEth THEN 1 ELSE 0
            gas_part ==
                IF ~parse_ok(transaction.gas_price) THEN 0
                ELSE IF parse_value(transaction.gas_price) > 100 * WeiPerGwei THEN 2
                ELSE IF parse_value(transaction.gas_price) > 50 * WeiPerGwei THEN 1 ELSE 0
            data_part ==
                IF transaction.data \notin {<<>>, <<"0", "x">>} THEN 1 ELSE 0 IN
        /\ current.risk_score = Min(value_part + gas_part + data_part, 10)
        /\ current.risk_score \in 0..10

\* C28: a transaction of at least 100 ETH and at least 200 gwei with calldata
\* has a risk score above 0.5.
CE_C28_HighValueHighGas ==
    (/\ current.risk_scored
     /\ parse_ok(current.transaction.value)
     /\ parse_value(current.transaction.value) >= 100 * WeiPerEth
     /\ parse_ok(current.transaction.gas_price)
     /\ parse_value(current.transaction.gas_price) >= 200 * WeiPerGwei
     /\ current.transaction.data \notin {<<>>, <<"0", "x">>}) =>
        current.risk_score > 5

\* Two addresses that differ in the case of their letters at most.
same_address(a, b) ==
    Len(a) = Len(b) /\ \A k \in 1..Len(a) : lower(a[k]) = lower(b[k])

PatternsOf(patterns) == {patterns[k].pattern : k \in 1..Len(patterns)}

has_reserved(rule) ==
    \E k \in 1..Len(rule.conditions) : rule.conditions[k].type \in {"MEVDetection", "Custom"}

\* C30: MEVDetection and Custom evaluate to false for every transaction, and
\* a rule that has one of them among its conditions gets no task and is the
\* rule of no alert.
Thm_C30_ReservedNeverFire ==
    /\ \A transaction \in Transactions :
          ~evaluate(MEVDetection, transaction) /\ ~evaluate(CustomCondition, transaction)
    /\ \A c \in Callers :
          /\ \A h \in DOMAIN tasks[c] : ~has_reserved(calls[c].rules[tasks[c][h].rule])
          /\ \A i \in 1..Len(calls[c].alerts), k \in 1..Len(calls[c].rules) :
                has_reserved(calls[c].rules[k]) => calls[c].alerts[i].rule_id # calls[c].rules[k].id

\* A call has returned whose rules include R5 and whose transaction passes
\* the chain filter of R5, so that its reserved condition was evaluated.
Wit_C30_ReservedEvaluated ==
    \E c \in Callers :
        /\ calls[c].pc = "returned"
        /\ \E k \in 1..Len(calls[c].rules) :
              /\ calls[c].rules[k] = R5
              /\ calls[c].evaluated[k] = <<1, 2>>

\* The condition of the call of the driver, once the call is made, and
\* whether the call found the rule to apply.
Called(type) ==
    /\ calls["driver"].pc # "idle"
    /\ Len(calls["driver"].rules) = 1
    /\ Len(calls["driver"].rules[1].conditions) = 1
    /\ calls["driver"].rules[1].conditions[1].type = type
CalledCondition == calls["driver"].rules[1].conditions[1]
RuleApplied == tasks["driver"] # <<>>

\* A JSON value that denotes a number: a number, or the decimal string of an
\* unsigned integer; and the number it denotes.
denotes_number(j) == j.t = "num" \/ (j.t = "str" /\ parse_u128_ok(j.v))
number_of(j) == IF j.t = "num" THEN j.v ELSE parse_value(j.v)

\* C31: a ValueComparison with gt, lt, ge or le is false when either operand
\* is null, and when both operands denote numbers below 2^53 (here below
\* 2^MantissaBits), as a JSON number or as a decimal string in any
\* combination, it is the comparison of the two numbers.
CE_C31_NumericComparison ==
    (Called("ValueComparison") /\ CalledCondition.operator \in NumericOperators) =>
        LET a == get_field_value(calls["driver"].transaction, CalledCondition.field)
            b == CalledCondition.value IN
        /\ (a.t = "null" \/ b.t = "null") => ~RuleApplied
        /\ (/\ denotes_number(a) /\ denotes_number(b)
            /\ number_of(a) < pow2(MantissaBits) /\ number_of(b) < pow2(MantissaBits)) =>
               (RuleApplied <=> op_f64(CalledCondition.operator, number_of(a), number_of(b)))

\* C32: a ValueThreshold applies exactly when the field is a string that
\* parses as u128 and lies within the bounds that are given (and parse), the
\* bounds included; with no bound it accepts 0, 1 and u128::MAX; it never
\* applies to an absent field, a number, a negative amount, an amount above
\* u128::MAX or a string that is no decimal integer.
Thm_C32_ValueThreshold ==
    Called("ValueThreshold") =>
        LET c == CalledCondition
            v == get_field_value(calls["driver"].transaction, c.field) IN
        /\ RuleApplied <=>
              /\ v.t = "str" /\ parse_u128_ok(v.v)
              /\ (c.min_value.some /\ parse_u128_ok(c.min_value.v)) =>
                     parse_value(c.min_value.v) <= parse_value(v.v)
              /\ (c.max_value.some /\ parse_u128_ok(c.max_value.v)) =>
                     parse_value(v.v) <= parse_value(c.max_value.v)
        /\ (/\ ~c.min_value.some /\ ~c.max_value.some /\ v.t = "str"
            /\ v.v \in {<<"0">>, <<"1">>, <<"1", "6", "7", "7", "7", "2", "1", "5">>}) =>
               RuleApplied
        /\ (v.t # "str" \/ v.v \in {<<"-", "1">>, <<"0", "x", "f">>,
                                     <<"1", "6", "7", "7", "7", "2", "1", "6">>}) =>
               ~RuleApplied

\* A value equal to both bounds is accepted: the largest u128 with max_value
\* the largest u128, and 1 with min_value 1.
Wit_C32_AtBothBounds ==
    /\ Called("ValueThreshold")
    /\ RuleApplied
    /\ CalledCondition.field = "value"
    /\ CalledCondition.min_value = Some(calls["driver"].transaction.value)
    /\ CalledCondition.max_value = Some(calls["driver"].transaction.value)
    /\ calls["driver"].pc = "returned"

Thm_C34_TimerTaskInert ==
    [][(rules_cache' # rules_cache \/ since_reload' < since_reload) =>
          /\ pc = "flush" /\ pc' = "next_tx"
          /\ ReloadDue
          /\ rules_cache' = EnabledRows(store)
          /\ since_reload' = 0]_vars

\* The loop waits in select! with a row in the store that was inserted at
\* least one interval of the timer ago and is not in the cache.
Wit_C34_TimerTickedCacheStale ==
    /\ pc = "select"
    /\ R7 \in store /\ R7 \notin rules_cache
    /\ row_age >= RuleReloadInterval
    /\ since_reload >= RuleReloadInterval

\* C35: where the loop selects (or sleeps before selecting again) the buffer
\* holds fewer than batch_size transactions, and when process_batch returns
\* to the loop the buffer is empty.
Thm_C35_BufferInvariant ==
    /\ [](pc \in {"select", "backoff"} => Len(batch) < BatchSize)
    /\ [][(pc' = "select" /\ pc \notin {"select", "backoff"}) => batch' = <<>>]_vars

\* The loop selects again after a flush of batch_size transactions.
Wit_C35_AfterFullFlush ==
    /\ pc = "select"
    /\ flush.size = BatchSize
    /\ flush.done = flush.size
    /\ batch = <<>>

\* The loop of process_batch has a transaction in hand.
InHand == IF pc \in {"risk", "mev", "rules", "sending"} THEN 1 ELSE 0

\* C36: every transaction is processed once.  The buffer grows only by the
\* one transaction of a consumed message and shrinks only by the transaction
\* the loop takes in hand; during a flush the transactions done, the one in
\* hand and those still in the buffer are together the transactions of the
\* flush; and the rules are dispatched once per transaction in hand, for it.
Thm_C36_ProcessedOnce ==
    /\ [](pc \in {"flush", "next_tx", "risk", "mev", "rules", "sending"} =>
            flush.done + InHand + Len(batch) = flush.size)
    /\ [][/\ batch' # batch =>
                \/ /\ pc = "select"
                   /\ consumed' = consumed + 1
                   /\ Len(batch') = Len(batch) + 1
                   /\ SubSeq(batch', 1, Len(batch)) = batch
                \/ /\ pc = "next_tx" /\ pc' = "risk"
                   /\ batch' = Tail(batch)
                   /\ current'.transaction = Head(batch)
          /\ (pc' = "risk" /\ pc # "risk") => (pc = "next_tx" /\ batch' # batch)
          /\ calls'["driver"].pc \notin {"idle", calls["driver"].pc} =>
                \/ /\ pc = "mev" /\ pc' = "rules"
                   /\ calls["driver"].pc = "idle"
                   /\ calls'["driver"].transaction = current.transaction
                \/ calls["driver"].pc = "joining" /\ calls'["driver"].pc = "returned"]_vars

\* The second transaction of a flush is in hand, after a message that did not
\* decode was consumed as well.
Wit_C36_SecondInHand ==
    /\ pc = "risk"
    /\ flush.done = 1
    /\ metrics.database_errors >= 1
    /\ consumed = MaxMessages

\* C37: the transactions of a batch are taken in the order of the buffer, and
\* the next one is taken only when every alert of the one before it has been
\* published; records are appended to the output in that order.
Thm_C37_InArrivalOrder ==
    [][/\ (pc' = "risk" /\ pc # "risk") =>
             /\ pc = "next_tx"
             /\ current'.transaction = Head(batch)
             /\ batch' = Tail(batch)
             /\ sent = 0
             /\ calls["driver"] = NoCall
             /\ Len(out) = flush.alerts
       /\ Len(out') > Len(out) =>
             /\ SubSeq(out', 1, Len(out)) = out
             /\ Len(out') = Len(out) + 1
             /\ out'[Len(out')].key = current.transaction.hash
             /\ out'[Len(out')].rule_id = calls["driver"].alerts[sent + 1].rule_id]_vars

\* The second transaction of a batch is taken after the alerts of the first,
\* another transaction, were published.
Wit_C37_SecondAfterAlerts ==
    /\ pc = "risk"
    /\ flush.done >= 1
    /\ out # <<>>
    /\ out[Len(out)].key # current.transaction.hash

\* C38: a transaction in the buffer is eventually processed: from a select!
\* with a non-empty buffer the loop reaches process_batch.
CE_C38_BufferedEventuallyFlushed ==
    (pc = "select" /\ batch # <<>>) ~> (pc = "flush")

\* C39: a call of execute_rules that awaits its tasks eventually returns,
\* whatever max_concurrent_rules is configured.
CE_C39_ExecuteRulesReturns ==
    (calls["driver"].pc = "joining") ~> (calls["driver"].pc = "returned")

====
